---- MODULE Spec2Model ----
(***************************************************************************)
(* Model of the Quick Ride shareholder backend, src/backend/server.js.     *)
(*                                                                         *)
(* The persistent store is the three tables the handlers read and write:   *)
(* shareholders, dividend_history and investment_stages.  Each table is a  *)
(* function from row id to row; AUTOINCREMENT is the next*Id counter, so   *)
(* an id is never reused after a delete.  Every request handler is one     *)
(* action; res is the response it sent, tagged with the operation served.  *)
(* The handlers whose statements other requests can fall between are also  *)
(* given statement by statement, and the agreement renderer block by       *)
(* block.                                                                  *)
(*                                                                         *)
(* Money is held in mills (1/1000 of a currency unit), so that an amount   *)
(* with more than two decimals is representable and the 2-decimal          *)
(* rounding of the handlers has something to round.  Arithmetic is exact;  *)
(* the binary floating point error of the JavaScript numbers is not        *)
(* modelled.                                                               *)
(***************************************************************************)
EXTENDS Integers, Sequences, FiniteSets, TLC

VARIABLES shareholders, nextShId, dividends, nextDivId, stages, nextStageId, res,
          inflight, foreignKeys, pdf

dbVars == <<shareholders, nextShId, dividends, nextDivId, stages, nextStageId>>
\* what lies outside the tables: the requests that wait on the store between two
\* of their statements, whether the connection enforces REFERENCES clauses,
\* and the document of the agreement renderer
auxVars == <<inflight, foreignKeys, pdf>>
vars == <<shareholders, nextShId, dividends, nextDivId, stages, nextStageId, res,
          inflight, foreignKeys, pdf>>

(***************************************************************************)
(* Bounds of the model.                                                    *)
(***************************************************************************)
\* largest shareholder id ever handed out (the admin is id 1)
MaxShId == 2
\* largest dividend_history id ever handed out
MaxDivId == 2
\* largest investment_stages id ever handed out (ids 1..3 are seeded)
MaxStageId == 4

(***************************************************************************)
(* Values.                                                                 *)
(***************************************************************************)
\* a column holding SQL NULL / a JavaScript null
NULL == "NULL"
\* new Date().toISOString(): some non-null timestamp
NOW == "ts"
\* an optional request field: <<>> when undefined, <<v>> when supplied
None == <<>>
Some(v) == <<v>>
\* one currency unit and one cent, in mills
Unit == 1000
Cent == 10

\* bcrypt.hash(password, 10): one-way, so kept as a tagged value
Hash(password) == <<"bcrypt", password>>
\* bcrypt.compare(password, hash)
Compare(password, hash) == hash = <<"bcrypt", password>>

Abs(x) == IF x < 0 THEN -x ELSE x

\* the rows of a table in rowid order, as a SELECT without ORDER BY returns them
RECURSIVE SortedIds(_)
SortedIds(S) ==
    IF S = {} THEN <<>>
    ELSE LET m == CHOOSE x \in S : \A y \in S : x <= y
         IN <<m>> \o SortedIds(S \ {m})

\* Math.floor in place of Math.round
Round2QTruncate(num, den) == Cent * (num \div (Cent * den))

\* Math.round(x * 100) / 100 for the rational x = num / den mills (den > 0):
\* the nearest cent, a tie going up, as Math.round does
Round2Q(num, den) == Cent * ((2 * num + Cent * den) \div (2 * Cent * den))
\* Math.round(x * 100) / 100 for x a whole number of mills
Round2(x) == Round2Q(x, 1)

\* Math.max(0, Number(gstRate) || 0); a missing gstRate arrives as 0
ClampGst(gstRate) == IF gstRate > 0 THEN gstRate ELSE 0
\* Math.round(gross * gst / 100 * 100) / 100
GstAmount(gross, gst) == Round2Q(gross * gst, 100)
\* Math.round((gross - gstAmt) * 100) / 100
NetAmount(gross, gstAmt) == Round2(gross - gstAmt)

(***************************************************************************)
(* Requests in flight.  A handler is an async function: it runs alone from *)
(* one await to the next, and between two of its statements on the store   *)
(* any other request may run.  inflight[c] is what the request of client c *)
(* holds in its local variables while it waits, or Idle.                   *)
(***************************************************************************)
Clients == {"c1", "c2"}
Idle == [pc |-> "idle"]
\* no agreement document is being rendered
NoDoc == [pc |-> "none"]

(***************************************************************************)
(* The seeded database.                                                    *)
(***************************************************************************)
SeedStages ==
    (1 :> [stage |-> 1, name |-> "Base Price", price_per_share |-> 1000,
           min_subscribers |-> 0, max_subscribers |-> 1500,
           status |-> "SOLD_OUT", shares_available |-> 0]) @@
    (2 :> [stage |-> 2, name |-> "Current Price", price_per_share |-> 1200,
           min_subscribers |-> 1501, max_subscribers |-> 5000,
           status |-> "RUNNING", shares_available |-> 100]) @@
    (3 :> [stage |-> 3, name |-> "Next Price", price_per_share |-> 1440,
           min_subscribers |-> 5001, max_subscribers |-> 15000,
           status |-> "UPCOMING", shares_available |-> 100])

AdminRow ==
    [username |-> "admin", email |-> "admin@quickride.com",
     business_role |-> "ADMIN", num_shares |-> 0,
     password_hash |-> Hash("Qc@242526"),
     total_investment |-> 0, price_per_share |-> 1200, stage |-> 2,
     status |-> "APPROVED", approved_at |-> NULL]

\* the store once initializeDatabase has run on an empty database
Init ==
    /\ shareholders = (1 :> AdminRow)
    /\ nextShId = 2
    /\ dividends = <<>>
    /\ nextDivId = 1
    /\ stages = SeedStages
    /\ nextStageId = 4
    /\ res = [op |-> "listen"]
    /\ inflight = [c \in Clients |-> Idle]
    /\ foreignKeys = FALSE
    /\ pdf = NoDoc

(***************************************************************************)
(* Helpers of the handlers.                                                *)
(***************************************************************************)
\* SELECT * FROM investment_stages WHERE status = 'RUNNING'
RunningStageIds(st) == {i \in DOMAIN st : st[i].status = "RUNNING"}

\* r.rows[0] || { price_per_share: 1200, stage: 2, name: 'Current Price' }
\* the SELECT without its WHERE status = 'RUNNING'
getRunningStageAnyStatus(st) ==
    IF DOMAIN st # {}
    THEN st[Head(SortedIds(DOMAIN st))]
    ELSE [price_per_share |-> 1200, stage |-> 2, name |-> "Current Price"]

\* (rows[0] is the whole row of the first RUNNING stage in rowid order)
getRunningStage(st) ==
    IF RunningStageIds(st) # {}
    THEN st[Head(SortedIds(RunningStageIds(st)))]
    ELSE [price_per_share |-> 1200, stage |-> 2, name |-> "Current Price"]

\* the shareholders WHERE status = 'APPROVED'
ApprovedIds(sh) == {i \in DOMAIN sh : sh[i].status = "APPROVED"}

\* shareholders.reduce((s, sh) => s + (sh.num_shares || 0), 0)
RECURSIVE SumShares(_, _)
SumShares(sh, S) ==
    IF S = {} THEN 0
    ELSE LET i == CHOOSE x \in S : TRUE
         IN sh[i].num_shares + SumShares(sh, S \ {i})

\* Math.round(totalGross * shareRatio): the scaling by 100 left out
BulkGrossWholeUnits(totalGross, numShares, totalShares) ==
    IF totalShares > 0
    THEN Unit * ((2 * totalGross * numShares + Unit * totalShares) \div (2 * Unit * totalShares))
    ELSE Unit * ((-(2 * totalGross * numShares) - Unit * totalShares) \div (-(2 * Unit * totalShares)))

\* Math.round(totalGross * (num_shares / totalShares) * 100) / 100, totalShares # 0
BulkGross(totalGross, numShares, totalShares) ==
    IF totalShares > 0
    THEN Round2Q(totalGross * numShares, totalShares)
    ELSE Round2Q(-(totalGross * numShares), -totalShares)

\* the row one INSERT INTO dividend_history writes
DividendRow(shareholderId, month, gross, gst, net, paymentMethod) ==
    [shareholder_id |-> shareholderId, month |-> month, gross_amount |-> gross,
     gst_rate |-> gst, amount |-> net,
     payment_method |-> IF paymentMethod = "" THEN "Bank Transfer" ELSE paymentMethod,
     status |-> "PAID", paid_at |-> NOW]

\* the last shareholder of the batch is given what the others' rounding left
BulkRowRemainderToLast(sh, id, month, totalGross, gst, totalShares, paymentMethod) ==
    LET others == ApprovedIds(sh) \ {id}
        isLast == \A i \in others : i < id
        RECURSIVE Given(_)
        Given(S) == IF S = {} THEN 0
                    ELSE LET i == CHOOSE x \in S : TRUE
                         IN BulkGross(totalGross, sh[i].num_shares, totalShares) + Given(S \ {i})
        gross == IF isLast THEN totalGross - Given(others)
                 ELSE BulkGross(totalGross, sh[id].num_shares, totalShares)
        gstAmt == GstAmount(gross, gst)
        net == NetAmount(gross, gstAmt)
    IN DividendRow(id, month, gross, gst, net, paymentMethod)

\* the row the bulk payout computes for one approved shareholder
BulkRow(sh, id, month, totalGross, gst, totalShares, paymentMethod) ==
    LET gross == BulkGross(totalGross, sh[id].num_shares, totalShares)
        gstAmt == GstAmount(gross, gst)
        net == NetAmount(gross, gstAmt)
    IN DividendRow(id, month, gross, gst, net, paymentMethod)

\* the test amount <= 0 left out
PayOneInvalidNoSign(shareholderId, month, amount) ==
    shareholderId = 0 \/ month = "" \/ amount = 0

\* !shareholderId || !month || !amount || amount <= 0
PayOneInvalid(shareholderId, month, amount) ==
    shareholderId = 0 \/ month = "" \/ amount = 0 \/ amount <= 0

\* the test amount <= 0 left out
PayAllInvalidNoSign(month, amount) == month = "" \/ amount = 0

\* !month || !amount || amount <= 0
PayAllInvalid(month, amount) == month = "" \/ amount = 0 \/ amount <= 0

\* the SELECT without its WHERE clause
BulkTargetsAll(sh) == SortedIds(DOMAIN sh)

\* the rows of SELECT id, num_shares FROM shareholders WHERE status = 'APPROVED'
BulkTargets(sh) == SortedIds(ApprovedIds(sh))

Decline(op, code, message) ==
    [op |-> op, code |-> code, success |-> FALSE, message |-> message]
Fault(op, message) == [op |-> op, code |-> 500, success |-> FALSE, message |-> message]

(***************************************************************************)
(* POST /api/admin/dividends: pay a single shareholder.  A missing         *)
(* shareholderId, amount or gstRate arrives as 0 and a missing month or    *)
(* paymentMethod as "", which the handler's truthiness tests treat alike.  *)
(***************************************************************************)
PayOne(shareholderId, month, amount, gstRate, paymentMethod) ==
    /\ UNCHANGED auxVars
    /\ IF PayOneInvalid(shareholderId, month, amount)
       THEN /\ res' = Decline("payOne", 200, "shareholderId, month, and amount are required")
            /\ UNCHANGED dbVars
       ELSE IF shareholderId \notin ApprovedIds(shareholders)
       THEN /\ res' = Decline("payOne", 200, "Shareholder not found or not approved")
            /\ UNCHANGED dbVars
       ELSE LET gst == ClampGst(gstRate)
                gross == amount
                gstAmt == GstAmount(gross, gst)
                net == NetAmount(gross, gstAmt)
            IN /\ dividends' = dividends @@
                      (nextDivId :> DividendRow(shareholderId, month, gross, gst, net, paymentMethod))
               /\ nextDivId' = nextDivId + 1
               /\ res' = [op |-> "payOne", code |-> 200, success |-> TRUE,
                          message |-> "Dividend recorded successfully",
                          net |-> net, gross |-> gross, gstAmt |-> gstAmt]
               /\ UNCHANGED <<shareholders, nextShId, stages, nextStageId>>

(***************************************************************************)
(* POST /api/admin/dividends/all: pay every approved shareholder by share. *)
(* The inserts run one by one with no transaction around them.  faultAt is *)
(* the store's part: 0 when it accepts every insert, j when the j-th       *)
(* insert throws (it is 0 whenever the handler reaches no insert that the  *)
(* store could refuse).  With totalShares = 0 every ratio is NaN or        *)
(* infinite, the net amount is NaN and the first insert is refused by the  *)
(* NOT NULL column whatever the store does.                                *)
(***************************************************************************)
PayAll(month, amount, gstRate, paymentMethod, faultAt) ==
    /\ UNCHANGED auxVars
    /\ IF PayAllInvalid(month, amount)
       THEN /\ faultAt = 0
            /\ res' = Decline("payAll", 200, "month and amount are required")
            /\ UNCHANGED dbVars
       ELSE IF BulkTargets(shareholders) = <<>>
       THEN /\ faultAt = 0
            /\ res' = Decline("payAll", 200, "No approved shareholders found")
            /\ UNCHANGED dbVars
       ELSE LET rows == BulkTargets(shareholders)
                n == Len(rows)
                totalShares == SumShares(shareholders, {rows[j] : j \in 1 .. n})
                gst == ClampGst(gstRate)
                totalGross == amount
                thrown == IF totalShares = 0 THEN 1 ELSE faultAt
                done == IF thrown = 0 THEN n ELSE thrown - 1
            IN /\ faultAt <= n
               /\ totalShares = 0 => faultAt = 0
               /\ dividends' = dividends @@
                      [d \in nextDivId .. (nextDivId + done - 1) |->
                          BulkRow(shareholders, rows[d - nextDivId + 1], month,
                                  totalGross, gst, totalShares, paymentMethod)]
               /\ nextDivId' = nextDivId + done
               /\ res' = IF thrown = 0
                         THEN [op |-> "payAll", code |-> 200, success |-> TRUE, count |-> n,
                               message |-> "Dividend paid to shareholders"]
                         ELSE Fault("payAll", "insert failed")
               /\ UNCHANGED <<shareholders, nextShId, stages, nextStageId>>

\* the INSERT leaving price_per_share and stage to their column defaults
RegisterAtDefaultPrice(email, businessRole, numShares, username, password) ==
    /\ UNCHANGED auxVars
    /\ IF email = "" \/ username = "" \/ password = "" \/ numShares = 0
       THEN /\ res' = Decline("register", 400, "Missing required fields")
            /\ UNCHANGED dbVars
       ELSE IF \E i \in DOMAIN shareholders : shareholders[i].username = username
       THEN /\ res' = Decline("register", 400, "Username already taken")
            /\ UNCHANGED dbVars
       ELSE IF \E i \in DOMAIN shareholders : shareholders[i].email = email
       THEN /\ res' = Decline("register", 400, "Email already registered")
            /\ UNCHANGED dbVars
       ELSE /\ shareholders' = shareholders @@
                   (nextShId :>
                       [username |-> username, email |-> email,
                        business_role |-> IF businessRole = "" THEN "DRIVER" ELSE businessRole,
                        num_shares |-> numShares,
                        password_hash |-> Hash(password),
                        total_investment |-> numShares * 1200,
                        price_per_share |-> 1200,
                        stage |-> 2,
                        status |-> "PENDING", approved_at |-> NULL])
            /\ nextShId' = nextShId + 1
            /\ res' = [op |-> "register", code |-> 200, success |-> TRUE,
                       message |-> "Agreement submitted successfully", id |-> nextShId]
            /\ UNCHANGED <<dividends, nextDivId, stages, nextStageId>>

(***************************************************************************)
(* POST /api/agreements: register a new investor.  The other required      *)
(* text fields (fullName, address, phone) are taken as supplied; a missing *)
(* field is modelled by email, username or password "" or numShares 0.     *)
(***************************************************************************)
Register(email, businessRole, numShares, username, password) ==
    /\ UNCHANGED auxVars
    /\ IF email = "" \/ username = "" \/ password = "" \/ numShares = 0
       THEN /\ res' = Decline("register", 400, "Missing required fields")
            /\ UNCHANGED dbVars
       ELSE IF \E i \in DOMAIN shareholders : shareholders[i].username = username
       THEN /\ res' = Decline("register", 400, "Username already taken")
            /\ UNCHANGED dbVars
       ELSE IF \E i \in DOMAIN shareholders : shareholders[i].email = email
       THEN /\ res' = Decline("register", 400, "Email already registered")
            /\ UNCHANGED dbVars
       ELSE LET currentStage == getRunningStage(stages)
                pricePerShare == currentStage.price_per_share
                totalInvestment == numShares * pricePerShare
            IN /\ shareholders' = shareholders @@
                      (nextShId :>
                          [username |-> username, email |-> email,
                           business_role |-> IF businessRole = "" THEN "DRIVER" ELSE businessRole,
                           num_shares |-> numShares,
                           password_hash |-> Hash(password),
                           total_investment |-> totalInvestment,
                           price_per_share |-> pricePerShare,
                           stage |-> currentStage.stage,
                           status |-> "PENDING", approved_at |-> NULL])
               /\ nextShId' = nextShId + 1
               /\ res' = [op |-> "register", code |-> 200, success |-> TRUE,
                          message |-> "Agreement submitted successfully", id |-> nextShId]
               /\ UNCHANGED <<dividends, nextDivId, stages, nextStageId>>

\* the UPDATE writing approved_at only on approval
SetStatusKeepApprovedAt(id, status) ==
    /\ UNCHANGED auxVars
    /\ shareholders' =
           [i \in DOMAIN shareholders |->
               IF i = id
               THEN [shareholders[i] EXCEPT
                       !.status = status,
                       !.approved_at = IF status = "APPROVED" THEN NOW ELSE @]
               ELSE shareholders[i]]
    /\ res' = [op |-> "setStatus", code |-> 200, success |-> TRUE, message |-> "Status updated"]
    /\ UNCHANGED <<nextShId, dividends, nextDivId, stages, nextStageId>>

\* the approval re-pricing the holding at the stage now running
SetStatusReprice(id, status) ==
    /\ UNCHANGED auxVars
    /\ LET approvedAt == IF status = "APPROVED" THEN NOW ELSE NULL
           price == getRunningStage(stages).price_per_share
       IN shareholders' =
              [i \in DOMAIN shareholders |->
                  IF i = id
                  THEN [shareholders[i] EXCEPT
                          !.status = status, !.approved_at = approvedAt,
                          !.price_per_share = price,
                          !.total_investment = shareholders[i].num_shares * price]
                  ELSE shareholders[i]]
    /\ res' = [op |-> "setStatus", code |-> 200, success |-> TRUE, message |-> "Status updated"]
    /\ UNCHANGED <<nextShId, dividends, nextDivId, stages, nextStageId>>

(***************************************************************************)
(* PUT /api/admin/agreements/:id: set a shareholder's status.  The UPDATE  *)
(* of an id that has no row changes nothing and still answers success.  A  *)
(* request with status null (NULL) binds null to the NOT NULL column: the  *)
(* UPDATE of an existing row throws and the handler answers 500.           *)
(***************************************************************************)
SetStatus(id, status) ==
    /\ UNCHANGED auxVars
    /\ IF status = NULL /\ id \in DOMAIN shareholders
       THEN /\ res' = Fault("setStatus", "NOT NULL constraint failed: shareholders.status")
            /\ UNCHANGED dbVars
       ELSE /\ LET approvedAt == IF status = "APPROVED" THEN NOW ELSE NULL
               IN shareholders' =
                      [i \in DOMAIN shareholders |->
                          IF i = id
                          THEN [shareholders[i] EXCEPT !.status = status, !.approved_at = approvedAt]
                          ELSE shareholders[i]]
            /\ res' = [op |-> "setStatus", code |-> 200, success |-> TRUE, message |-> "Status updated"]
            /\ UNCHANGED <<nextShId, dividends, nextDivId, stages, nextStageId>>

\* the handler without its test for the ADMIN role
DeleteAgreementNoAdminCheck(id) ==
    /\ UNCHANGED auxVars
    /\ IF id \notin DOMAIN shareholders
       THEN /\ res' = Decline("deleteAgreement", 404, "Shareholder not found")
            /\ UNCHANGED dbVars
       ELSE /\ dividends' = [d \in {x \in DOMAIN dividends : dividends[x].shareholder_id # id}
                                |-> dividends[d]]
            /\ shareholders' = [i \in DOMAIN shareholders \ {id} |-> shareholders[i]]
            /\ res' = [op |-> "deleteAgreement", code |-> 200, success |-> TRUE, message |-> "Agreement deleted"]
            /\ UNCHANGED <<nextShId, nextDivId, stages, nextStageId>>

\* DELETE FROM dividend_history without its WHERE clause
DeleteAgreementAllDividends(id) ==
    /\ UNCHANGED auxVars
    /\ IF id \notin DOMAIN shareholders
       THEN /\ res' = [op |-> "deleteAgreement", code |-> 404, success |-> FALSE,
                       message |-> "Shareholder not found"]
            /\ UNCHANGED dbVars
       ELSE IF shareholders[id].business_role = "ADMIN"
       THEN /\ res' = [op |-> "deleteAgreement", code |-> 403, success |-> FALSE,
                       message |-> "Cannot delete admin account"]
            /\ UNCHANGED dbVars
       ELSE /\ dividends' = <<>>
            /\ shareholders' = [i \in DOMAIN shareholders \ {id} |-> shareholders[i]]
            /\ res' = [op |-> "deleteAgreement", code |-> 200, success |-> TRUE,
                       message |-> "Agreement deleted"]
            /\ UNCHANGED <<nextShId, nextDivId, stages, nextStageId>>

\* the handler deleting the shareholder's row and leaving its dividend records
DeleteAgreementKeepDividends(id) ==
    /\ UNCHANGED auxVars
    /\ IF id \notin DOMAIN shareholders
       THEN /\ res' = [op |-> "deleteAgreement", code |-> 404, success |-> FALSE,
                       message |-> "Shareholder not found"]
            /\ UNCHANGED dbVars
       ELSE IF shareholders[id].business_role = "ADMIN"
       THEN /\ res' = [op |-> "deleteAgreement", code |-> 403, success |-> FALSE,
                       message |-> "Cannot delete admin account"]
            /\ UNCHANGED dbVars
       ELSE /\ shareholders' = [i \in DOMAIN shareholders \ {id} |-> shareholders[i]]
            /\ res' = [op |-> "deleteAgreement", code |-> 200, success |-> TRUE,
                       message |-> "Agreement deleted"]
            /\ UNCHANGED <<nextShId, dividends, nextDivId, stages, nextStageId>>

(***************************************************************************)
(* DELETE /api/admin/agreements/:id                                        *)
(***************************************************************************)
DeleteAgreement(id) ==
    /\ UNCHANGED auxVars
    /\ IF id \notin DOMAIN shareholders
       THEN /\ res' = Decline("deleteAgreement", 404, "Shareholder not found")
            /\ UNCHANGED dbVars
       ELSE IF shareholders[id].business_role = "ADMIN"
       THEN /\ res' = Decline("deleteAgreement", 403, "Cannot delete admin account")
            /\ UNCHANGED dbVars
       ELSE /\ dividends' = [d \in {x \in DOMAIN dividends : dividends[x].shareholder_id # id}
                                |-> dividends[d]]
            /\ shareholders' = [i \in DOMAIN shareholders \ {id} |-> shareholders[i]]
            /\ res' = [op |-> "deleteAgreement", code |-> 200, success |-> TRUE, message |-> "Agreement deleted"]
            /\ UNCHANGED <<nextShId, nextDivId, stages, nextStageId>>

\* the handler without its SELECT for another row holding the new username
UpdateCredentialsNoCollisionCheck(id, username, password) ==
    /\ UNCHANGED auxVars
    /\ IF username = "" /\ password = ""
       THEN /\ res' = [op |-> "updateCredentials", code |-> 400, success |-> FALSE,
                       message |-> "username or password required"]
            /\ UNCHANGED dbVars
       ELSE IF id \notin DOMAIN shareholders
       THEN /\ res' = [op |-> "updateCredentials", code |-> 404, success |-> FALSE,
                       message |-> "Shareholder not found"]
            /\ UNCHANGED dbVars
       ELSE IF shareholders[id].business_role = "ADMIN"
       THEN /\ res' = [op |-> "updateCredentials", code |-> 403, success |-> FALSE,
                       message |-> "Cannot modify admin credentials here"]
            /\ UNCHANGED dbVars
       ELSE /\ shareholders' =
                   [shareholders EXCEPT
                       ![id].username = IF username # "" THEN username ELSE @,
                       ![id].password_hash = IF password # "" THEN Hash(password) ELSE @]
            /\ res' = [op |-> "updateCredentials", code |-> 200, success |-> TRUE,
                       message |-> "Credentials updated successfully"]
            /\ UNCHANGED <<nextShId, dividends, nextDivId, stages, nextStageId>>

(***************************************************************************)
(* PUT /api/admin/shareholders/:id/credentials; a field that is not        *)
(* supplied arrives as "".                                                 *)
(***************************************************************************)
UpdateCredentials(id, username, password) ==
    /\ UNCHANGED auxVars
    /\ IF username = "" /\ password = ""
       THEN /\ res' = Decline("updateCredentials", 400, "username or password required")
            /\ UNCHANGED dbVars
       ELSE IF id \notin DOMAIN shareholders
       THEN /\ res' = Decline("updateCredentials", 404, "Shareholder not found")
            /\ UNCHANGED dbVars
       ELSE IF shareholders[id].business_role = "ADMIN"
       THEN /\ res' = Decline("updateCredentials", 403, "Cannot modify admin credentials here")
            /\ UNCHANGED dbVars
       ELSE IF /\ username # ""
               /\ username # shareholders[id].username
               /\ \E i \in DOMAIN shareholders \ {id} : shareholders[i].username = username
       THEN /\ res' = Decline("updateCredentials", 400, "Username already taken")
            /\ UNCHANGED dbVars
       ELSE /\ shareholders' =
                   [shareholders EXCEPT
                       ![id].username = IF username # "" THEN username ELSE @,
                       ![id].password_hash = IF password # "" THEN Hash(password) ELSE @]
            /\ res' = [op |-> "updateCredentials", code |-> 200, success |-> TRUE,
                       message |-> "Credentials updated successfully"]
            /\ UNCHANGED <<nextShId, dividends, nextDivId, stages, nextStageId>>

\* the handler without its approval gate
LoginNoApprovalGate(username, password) ==
    /\ UNCHANGED auxVars
    /\ LET rows == SortedIds({i \in DOMAIN shareholders : shareholders[i].username = username})
       IN IF username = "" \/ password = ""
          THEN res' = Decline("login", 400, "Username and password required")
          ELSE IF rows = <<>> \/ ~Compare(password, shareholders[Head(rows)].password_hash)
          THEN res' = Decline("login", 200, "Invalid credentials.")
          ELSE LET row == shareholders[Head(rows)]
               IN res' = [op |-> "login", code |-> 200, success |-> TRUE,
                          user |-> [id |-> Head(rows),
                                    role |-> IF row.business_role = "ADMIN"
                                             THEN "ADMIN" ELSE "SHAREHOLDER",
                                    username |-> row.username]]
    /\ UNCHANGED dbVars

(***************************************************************************)
(* POST /api/auth/login; a missing username or password arrives as "".     *)
(* username is UNIQUE, so rows[0] is the one row that has it.              *)
(***************************************************************************)
Login(username, password) ==
    /\ UNCHANGED auxVars
    /\ LET rows == SortedIds({i \in DOMAIN shareholders : shareholders[i].username = username})
       IN IF username = "" \/ password = ""
          THEN res' = Decline("login", 400, "Username and password required")
          ELSE IF rows = <<>> \/ ~Compare(password, shareholders[Head(rows)].password_hash)
          THEN res' = Decline("login", 200, "Invalid credentials.")
          ELSE LET row == shareholders[Head(rows)]
               IN IF row.business_role # "ADMIN" /\ row.status # "APPROVED"
                  THEN res' = Decline("login", 200, "Account pending approval. Please wait for admin to approve.")
                  ELSE res' = [op |-> "login", code |-> 200, success |-> TRUE,
                               user |-> [id |-> Head(rows),
                                         role |-> IF row.business_role = "ADMIN"
                                                  THEN "ADMIN" ELSE "SHAREHOLDER",
                                         username |-> row.username]]
    /\ UNCHANGED dbVars

(***************************************************************************)
(* GET /api/shareholders/:id/dashboard.  The response is given by its      *)
(* fields that come from the three tables of the model; dividendHistory    *)
(* holds the shareholder's ledger rows (amount, status) by row id.         *)
(***************************************************************************)
Dashboard(id) ==
    /\ UNCHANGED auxVars
    /\ IF id \notin DOMAIN shareholders
       THEN res' = Decline("dashboard", 404, "Shareholder not found")
       ELSE LET sh == shareholders[id]
                stage == getRunningStage(stages)
                own == {d \in DOMAIN dividends : dividends[d].shareholder_id = id}
            IN res' = [op |-> "dashboard", code |-> 200, success |-> TRUE, id |-> id,
                       businessRole |-> sh.business_role, numShares |-> sh.num_shares,
                       totalInvestment |-> sh.total_investment,
                       pricePerShare |-> sh.price_per_share,
                       investmentStage |-> sh.stage, status |-> sh.status,
                       currentStage |-> stage,
                       dividendHistory |->
                           [d \in own |-> [amount |-> dividends[d].amount,
                                           status |-> dividends[d].status]]]
    /\ UNCHANGED dbVars

\* the handler without its 'Nothing to update' test
UpdateStageNoEmptyCheck(id, status, price_per_share, name, shares_available) ==
    /\ UNCHANGED auxVars
    /\ stages' =
           [i \in DOMAIN stages |->
               IF i = id
               THEN [stages[i] EXCEPT
                       !.status = IF status # None THEN status[1] ELSE @,
                       !.price_per_share =
                           IF price_per_share # None THEN price_per_share[1] ELSE @,
                       !.name = IF name # None THEN name[1] ELSE @,
                       !.shares_available =
                           IF shares_available # None THEN shares_available[1] ELSE @]
               ELSE stages[i]]
    /\ res' = [op |-> "updateStage", code |-> 200, success |-> TRUE, message |-> "Stage updated"]
    /\ UNCHANGED <<shareholders, nextShId, dividends, nextDivId, nextStageId>>

(***************************************************************************)
(* PUT /api/admin/stages/:id: each of status, price_per_share, name and    *)
(* shares_available is None when undefined and Some(v) when supplied.      *)
(***************************************************************************)
UpdateStage(id, status, price_per_share, name, shares_available) ==
    /\ UNCHANGED auxVars
    /\ IF status = None /\ price_per_share = None /\ name = None /\ shares_available = None
       THEN /\ res' = Decline("updateStage", 400, "Nothing to update")
            /\ UNCHANGED dbVars
       ELSE /\ stages' =
                   [i \in DOMAIN stages |->
                       IF i = id
                       THEN [stages[i] EXCEPT
                               !.status = IF status # None THEN status[1] ELSE @,
                               !.price_per_share =
                                   IF price_per_share # None THEN price_per_share[1] ELSE @,
                               !.name = IF name # None THEN name[1] ELSE @,
                               !.shares_available =
                                   IF shares_available # None THEN shares_available[1] ELSE @]
                       ELSE stages[i]]
            /\ res' = [op |-> "updateStage", code |-> 200, success |-> TRUE, message |-> "Stage updated"]
            /\ UNCHANGED <<shareholders, nextShId, dividends, nextDivId, nextStageId>>

(***************************************************************************)
(* POST /api/admin/stages; a missing stage, price or bound arrives as 0    *)
(* and a missing name or status as "".                                     *)
(***************************************************************************)
CreateStage(stage, name, price_per_share, min_subscribers, max_subscribers, status, shares_available) ==
    /\ UNCHANGED auxVars
    /\ IF stage = 0 \/ name = "" \/ price_per_share = 0
       THEN /\ res' = Decline("createStage", 400, "stage, name, price_per_share required")
            /\ UNCHANGED dbVars
       ELSE /\ stages' = stages @@
                   (nextStageId :>
                       [stage |-> stage, name |-> name, price_per_share |-> price_per_share,
                        min_subscribers |-> min_subscribers,
                        max_subscribers |-> max_subscribers,
                        status |-> IF status = "" THEN "UPCOMING" ELSE status,
                        shares_available |-> shares_available])
            /\ nextStageId' = nextStageId + 1
            /\ res' = [op |-> "createStage", code |-> 200, success |-> TRUE, message |-> "Stage added",
                       id |-> nextStageId]
            /\ UNCHANGED <<shareholders, nextShId, dividends, nextDivId>>

(***************************************************************************)
(* The handlers statement by statement.  Each action below is the part of  *)
(* a handler from one await on the store to the next: it runs the          *)
(* statement the handler was waiting on and the synchronous code after it, *)
(* up to the next statement or the response.  A step that sends no         *)
(* response leaves res as it was.                                          *)
(***************************************************************************)
\* the request of client c goes on waiting, with locals its local variables
Await(c, locals) ==
    /\ inflight' = [inflight EXCEPT ![c] = locals]
    /\ res' = res

\* the request of client c ends with a response
Respond(c, response) ==
    /\ inflight' = [inflight EXCEPT ![c] = Idle]
    /\ res' = response

\* a row other than id holds the username, or a row holds the email: the
\* UNIQUE constraints of the shareholders table
UniqueViolated(sh, id, username, email) ==
    \E i \in DOMAIN sh \ {id} : sh[i].username = username \/ sh[i].email = email

\* POST /api/agreements up to the result of SELECT ... WHERE username = ?
RegisterSelectUsername(c, email, businessRole, numShares, username, password) ==
    /\ inflight[c] = Idle
    /\ UNCHANGED <<dbVars, foreignKeys, pdf>>
    /\ IF email = "" \/ username = "" \/ password = "" \/ numShares = 0
       THEN Respond(c, Decline("register", 400, "Missing required fields"))
       ELSE IF \E i \in DOMAIN shareholders : shareholders[i].username = username
       THEN Respond(c, Decline("register", 400, "Username already taken"))
       ELSE Await(c, [pc |-> "register.selectEmail", email |-> email,
                      businessRole |-> businessRole, numShares |-> numShares,
                      username |-> username, password |-> password])

\* ... the result of SELECT ... WHERE email = ?
RegisterSelectEmail(c) ==
    /\ inflight[c].pc = "register.selectEmail"
    /\ UNCHANGED <<dbVars, foreignKeys, pdf>>
    /\ IF \E i \in DOMAIN shareholders : shareholders[i].email = inflight[c].email
       THEN Respond(c, Decline("register", 400, "Email already registered"))
       ELSE Await(c, [inflight[c] EXCEPT !.pc = "register.getRunningStage"])

\* ... the result of getRunningStage(); the hashing of the password that
\* follows does not touch the store
RegisterGetRunningStage(c) ==
    /\ inflight[c].pc = "register.getRunningStage"
    /\ UNCHANGED <<dbVars, foreignKeys, pdf>>
    /\ LET currentStage == getRunningStage(stages)
           pricePerShare == currentStage.price_per_share
       IN Await(c, [pc |-> "register.insert", email |-> inflight[c].email,
                    businessRole |-> inflight[c].businessRole,
                    numShares |-> inflight[c].numShares,
                    username |-> inflight[c].username,
                    passwordHash |-> Hash(inflight[c].password),
                    pricePerShare |-> pricePerShare,
                    totalInvestment |-> inflight[c].numShares * pricePerShare,
                    stage |-> currentStage.stage])

\* the INSERT on a table whose username and email columns are not UNIQUE
RegisterInsertNoUnique(c) ==
    /\ inflight[c].pc = "register.insert"
    /\ UNCHANGED <<dividends, nextDivId, stages, nextStageId, foreignKeys, pdf>>
    /\ LET r == inflight[c]
       IN /\ shareholders' = shareholders @@
                 (nextShId :>
                     [username |-> r.username, email |-> r.email,
                      business_role |-> IF r.businessRole = "" THEN "DRIVER"
                                        ELSE r.businessRole,
                      num_shares |-> r.numShares,
                      password_hash |-> r.passwordHash,
                      total_investment |-> r.totalInvestment,
                      price_per_share |-> r.pricePerShare,
                      stage |-> r.stage,
                      status |-> "PENDING", approved_at |-> NULL])
          /\ nextShId' = nextShId + 1
          /\ Respond(c, [op |-> "register", code |-> 200, success |-> TRUE,
                         message |-> "Agreement submitted successfully",
                         id |-> nextShId])

\* ... the INSERT and the response.  The store refuses a row whose username
\* or email another row holds; the handler's catch answers 500.
RegisterInsert(c) ==
    /\ inflight[c].pc = "register.insert"
    /\ UNCHANGED <<dividends, nextDivId, stages, nextStageId, foreignKeys, pdf>>
    /\ LET r == inflight[c]
       IN IF UniqueViolated(shareholders, 0, r.username, r.email)
          THEN /\ UNCHANGED <<shareholders, nextShId>>
               /\ Respond(c, Fault("register", "Server error: UNIQUE constraint failed"))
          ELSE /\ shareholders' = shareholders @@
                      (nextShId :>
                          [username |-> r.username, email |-> r.email,
                           business_role |-> IF r.businessRole = "" THEN "DRIVER"
                                             ELSE r.businessRole,
                           num_shares |-> r.numShares,
                           password_hash |-> r.passwordHash,
                           total_investment |-> r.totalInvestment,
                           price_per_share |-> r.pricePerShare,
                           stage |-> r.stage,
                           status |-> "PENDING", approved_at |-> NULL])
               /\ nextShId' = nextShId + 1
               /\ Respond(c, [op |-> "register", code |-> 200, success |-> TRUE,
                              message |-> "Agreement submitted successfully",
                              id |-> nextShId])

\* PUT /api/admin/shareholders/:id/credentials up to the result of the SELECT
\* of the target row and the comparison with its username
CredentialsSelect(c, id, username, password) ==
    /\ inflight[c] = Idle
    /\ UNCHANGED <<dbVars, foreignKeys, pdf>>
    /\ IF username = "" /\ password = ""
       THEN Respond(c, Decline("updateCredentials", 400, "username or password required"))
       ELSE IF id \notin DOMAIN shareholders
       THEN Respond(c, Decline("updateCredentials", 404, "Shareholder not found"))
       ELSE IF shareholders[id].business_role = "ADMIN"
       THEN Respond(c, Decline("updateCredentials", 403, "Cannot modify admin credentials here"))
       ELSE Await(c, [pc |-> IF username # "" /\ username # shareholders[id].username
                             THEN "credentials.selectOther"
                             ELSE "credentials.update",
                      id |-> id, username |-> username, password |-> password])

\* ... the result of SELECT ... WHERE username = ? AND id != ?
CredentialsSelectOther(c) ==
    /\ inflight[c].pc = "credentials.selectOther"
    /\ UNCHANGED <<dbVars, foreignKeys, pdf>>
    /\ IF \E i \in DOMAIN shareholders \ {inflight[c].id} :
             shareholders[i].username = inflight[c].username
       THEN Respond(c, Decline("updateCredentials", 400, "Username already taken"))
       ELSE Await(c, [inflight[c] EXCEPT !.pc = "credentials.update"])

\* ... the UPDATE and the response.  An UPDATE of an id that has no row any
\* more changes nothing; one that would give the row a username another row
\* holds is refused by the store and answered 500.
CredentialsUpdate(c) ==
    /\ inflight[c].pc = "credentials.update"
    /\ UNCHANGED <<nextShId, dividends, nextDivId, stages, nextStageId, foreignKeys, pdf>>
    /\ LET r == inflight[c]
       IN IF r.id \notin DOMAIN shareholders
          THEN /\ UNCHANGED shareholders
               /\ Respond(c, [op |-> "updateCredentials", code |-> 200, success |-> TRUE,
                              message |-> "Credentials updated successfully"])
          ELSE IF /\ r.username # ""
                  /\ UniqueViolated(shareholders, r.id, r.username, shareholders[r.id].email)
          THEN /\ UNCHANGED shareholders
               /\ Respond(c, Fault("updateCredentials", "UNIQUE constraint failed"))
          ELSE /\ shareholders' =
                      [shareholders EXCEPT
                          ![r.id].username = IF r.username # "" THEN r.username ELSE @,
                          ![r.id].password_hash =
                              IF r.password # "" THEN Hash(r.password) ELSE @]
               /\ Respond(c, [op |-> "updateCredentials", code |-> 200, success |-> TRUE,
                              message |-> "Credentials updated successfully"])

\* a dividend row naming a shareholder that has no row is refused by a
\* connection that enforces the REFERENCES clause of dividend_history
ReferenceRefused(sh, shareholderId) == foreignKeys /\ shareholderId \notin DOMAIN sh

\* POST /api/admin/dividends up to the result of the SELECT of the approved row
PayOneSelect(c, shareholderId, month, amount, gstRate, paymentMethod) ==
    /\ inflight[c] = Idle
    /\ UNCHANGED <<dbVars, foreignKeys, pdf>>
    /\ IF PayOneInvalid(shareholderId, month, amount)
       THEN Respond(c, Decline("payOne", 200, "shareholderId, month, and amount are required"))
       ELSE IF shareholderId \notin ApprovedIds(shareholders)
       THEN Respond(c, Decline("payOne", 200, "Shareholder not found or not approved"))
       ELSE LET gst == ClampGst(gstRate)
                gross == amount
                gstAmt == GstAmount(gross, gst)
            IN Await(c, [pc |-> "payOne.insert", shareholderId |-> shareholderId,
                         month |-> month, gross |-> gross, gst |-> gst,
                         gstAmt |-> gstAmt, net |-> NetAmount(gross, gstAmt),
                         paymentMethod |-> paymentMethod])

\* ... the INSERT and the response
PayOneInsert(c) ==
    /\ inflight[c].pc = "payOne.insert"
    /\ UNCHANGED <<shareholders, nextShId, stages, nextStageId, foreignKeys, pdf>>
    /\ LET r == inflight[c]
       IN IF ReferenceRefused(shareholders, r.shareholderId)
          THEN /\ UNCHANGED <<dividends, nextDivId>>
               /\ Respond(c, Fault("payOne", "FOREIGN KEY constraint failed"))
          ELSE /\ dividends' = dividends @@
                      (nextDivId :> DividendRow(r.shareholderId, r.month, r.gross,
                                                r.gst, r.net, r.paymentMethod))
               /\ nextDivId' = nextDivId + 1
               /\ Respond(c, [op |-> "payOne", code |-> 200, success |-> TRUE,
                              message |-> "Dividend recorded successfully",
                              net |-> r.net, gross |-> r.gross, gstAmt |-> r.gstAmt])

\* POST /api/admin/dividends/all up to the result of the SELECT of the
\* approved rows; the handler keeps the rows (id, num_shares) it was given
PayAllSelect(c, month, amount, gstRate, paymentMethod) ==
    /\ inflight[c] = Idle
    /\ UNCHANGED <<dbVars, foreignKeys, pdf>>
    /\ IF PayAllInvalid(month, amount)
       THEN Respond(c, Decline("payAll", 200, "month and amount are required"))
       ELSE IF BulkTargets(shareholders) = <<>>
       THEN Respond(c, Decline("payAll", 200, "No approved shareholders found"))
       ELSE LET rows == BulkTargets(shareholders)
                ids == {rows[j] : j \in 1 .. Len(rows)}
            IN Await(c, [pc |-> "payAll.insert", next |-> 1, rows |-> rows,
                         selected |-> [i \in ids |->
                                          [num_shares |-> shareholders[i].num_shares]],
                         totalShares |-> SumShares(shareholders, ids),
                         month |-> month, totalGross |-> amount,
                         gst |-> ClampGst(gstRate), paymentMethod |-> paymentMethod])

\* ... one turn of the loop: the INSERT for the next row of the batch, and
\* after the last one the response
PayAllInsert(c) ==
    /\ inflight[c].pc = "payAll.insert"
    /\ UNCHANGED <<shareholders, nextShId, stages, nextStageId, foreignKeys, pdf>>
    /\ LET r == inflight[c]
           id == r.rows[r.next]
       IN IF r.totalShares = 0
          THEN /\ UNCHANGED <<dividends, nextDivId>>
               /\ Respond(c, Fault("payAll", "insert failed"))
          ELSE IF ReferenceRefused(shareholders, id)
          THEN /\ UNCHANGED <<dividends, nextDivId>>
               /\ Respond(c, Fault("payAll", "FOREIGN KEY constraint failed"))
          ELSE /\ dividends' = dividends @@
                      (nextDivId :> BulkRow(r.selected, id, r.month, r.totalGross,
                                            r.gst, r.totalShares, r.paymentMethod))
               /\ nextDivId' = nextDivId + 1
               /\ IF r.next = Len(r.rows)
                  THEN Respond(c, [op |-> "payAll", code |-> 200, success |-> TRUE,
                                   count |-> Len(r.rows),
                                   message |-> "Dividend paid to shareholders"])
                  ELSE Await(c, [r EXCEPT !.next = @ + 1])

\* DELETE /api/admin/agreements/:id up to the result of the SELECT of the row
DeleteSelect(c, id) ==
    /\ inflight[c] = Idle
    /\ UNCHANGED <<dbVars, foreignKeys, pdf>>
    /\ IF id \notin DOMAIN shareholders
       THEN Respond(c, Decline("deleteAgreement", 404, "Shareholder not found"))
       ELSE IF shareholders[id].business_role = "ADMIN"
       THEN Respond(c, Decline("deleteAgreement", 403, "Cannot delete admin account"))
       ELSE Await(c, [pc |-> "delete.dividends", id |-> id])

\* ... DELETE FROM dividend_history WHERE shareholder_id = ?
DeleteDividends(c) ==
    /\ inflight[c].pc = "delete.dividends"
    /\ UNCHANGED <<shareholders, nextShId, nextDivId, stages, nextStageId, foreignKeys, pdf>>
    /\ dividends' =
           [d \in {x \in DOMAIN dividends : dividends[x].shareholder_id # inflight[c].id}
               |-> dividends[d]]
    /\ Await(c, [inflight[c] EXCEPT !.pc = "delete.shareholder"])

\* ... DELETE FROM shareholders WHERE id = ? and the response.  A connection
\* that enforces REFERENCES refuses to delete a row that a dividend row names.
DeleteShareholder(c) ==
    /\ inflight[c].pc = "delete.shareholder"
    /\ UNCHANGED <<nextShId, dividends, nextDivId, stages, nextStageId, foreignKeys, pdf>>
    /\ LET id == inflight[c].id
       IN IF foreignKeys /\ \E d \in DOMAIN dividends : dividends[d].shareholder_id = id
          THEN /\ UNCHANGED shareholders
               /\ Respond(c, Fault("deleteAgreement", "FOREIGN KEY constraint failed"))
          ELSE /\ shareholders' = [i \in DOMAIN shareholders \ {id} |-> shareholders[i]]
               /\ Respond(c, [op |-> "deleteAgreement", code |-> 200, success |-> TRUE,
                              message |-> "Agreement deleted"])

(***************************************************************************)
(* POST /api/admin/agreements/:id/pdf: the agreement renderer.  Lengths    *)
(* are in hundredths of a point.  The renderer is synchronous code after   *)
(* its one SELECT; it is followed here block by block, and for a block     *)
(* that begins with ensureSpace the call is a step of its own.             *)
(*                                                                         *)
(* A document d has the renderer's cursor cy and counter pageNum, the text *)
(* cursor y of the drawing library (doc.y), and its pages: for each page   *)
(* whether the header was drawn on it and the set of numbers its footers   *)
(* show.  Everything is drawn on the last page.                            *)
(***************************************************************************)
pageH == 84189
HEADER_H == 7200
FOOTER_H == 2200
BODY_TOP == HEADER_H + 800
BODY_BOT == pageH - FOOTER_H - 800

\* line height of Helvetica at 8pt, at 7.5pt with lineGap 1.5, at 8pt with
\* lineGap 2 (1.156 times the font size, plus the gap)
LineHeightValue == 925
LineHeightTerm == 1017
LineHeightDeclaration == 1125

BlankPage == [header |-> FALSE, footers |-> {}]

drawHeader(d) == [d EXCEPT !.pages[Len(d.pages)].header = TRUE]

drawFooter(d) ==
    [d EXCEPT !.pages[Len(d.pages)].footers = @ \cup {d.pageNum}]

\* newPage without its pageNum++
newPageKeepCounter(d) ==
    LET flushed == drawFooter(d)
        added == [flushed EXCEPT !.pages = Append(@, BlankPage)]
    IN [drawFooter(drawHeader(added)) EXCEPT !.cy = BODY_TOP]

newPage(d) ==
    LET flushed == drawFooter(d)
        added == [flushed EXCEPT !.pages = Append(@, BlankPage)]
        counted == [added EXCEPT !.pageNum = @ + 1]
    IN [drawFooter(drawHeader(counted)) EXCEPT !.cy = BODY_TOP]

ensureSpace(d, n) == IF d.cy + n > BODY_BOT THEN newPage(d) ELSE d

\* Math.ceil(length / perLine)
CeilDiv(length, perLine) == (length + perLine - 1) \div perLine

\* doc.text(str, x, top, {width}) for a string the library lays out in lines
\* lines of height lineHeight.  The call sets no height and leaves lineBreak
\* on, so the library wraps the text and, when the next line would pass the
\* bottom of the page (the margin is 0), adds a page by itself and goes on at
\* its top: a page the renderer draws no header and no footer on and does not
\* count.
text(d, top, lines, lineHeight) ==
    LET room == (pageH - top) \div lineHeight
        fit == IF top > pageH \/ room < 1 THEN 1 ELSE room
        perPage == pageH \div lineHeight
        rest == lines - fit
        added == CeilDiv(rest, perPage)
    IN IF lines <= fit
       THEN [d EXCEPT !.y = top + lines * lineHeight]
       ELSE [d EXCEPT !.pages = @ \o [k \in 1 .. added |-> BlankPage],
                      !.y = (rest - (added - 1) * perPage) * lineHeight]

\* field: the height the row is given, from the length of the value
FieldHeight(length) ==
    LET extraLines == CeilDiv(length, 55)
    IN 1700 + (IF extraLines > 1 THEN (extraLines - 1) * 1100 ELSE 0)

\* termBlock: the height the block is given, from the length of the body
TermHeight(length) == 1600 + (CeilDiv(length, 90) + 1) * 1100 + 1000

\* a value of at most 55 characters that the library sets in one line
ShortValue == [length |-> 10, lines |-> 1]

\* the bodies of the seven terms: their lengths, and the lines the library
\* sets them in at 7.5pt Helvetica and width CW - 20
TermBodies ==
    << [length |-> 456, lines |-> 4], [length |-> 471, lines |-> 4],
       [length |-> 473, lines |-> 4], [length |-> 542, lines |-> 4],
       [length |-> 718, lines |-> 5], [length |-> 641, lines |-> 5],
       [length |-> 463, lines |-> 4] >>

\* the declaration: 890 characters, 7 lines at 8pt Helvetica and width CW
DeclarationLines == 7

Section(extra) == [kind |-> "section", extra |-> extra]
Field(value) == [kind |-> "field", value |-> value]

\* the blocks of the agreement of row s, in the order the handler draws them
Blocks(s) ==
    << [kind |-> "idPanel"], [kind |-> "photo"], Section(0),
       Field(ShortValue), Field(ShortValue), Field(s.address),
       Field(ShortValue), Field(ShortValue), Field(ShortValue),
       Section(0),
       Field(ShortValue), Field(ShortValue), Field(ShortValue),
       Field(ShortValue), Field(ShortValue), Field(ShortValue) >>
    \o (IF s.approved_at # NULL THEN << Field(ShortValue) >> ELSE << >>)
    \o << Section(400) >>
    \o [i \in 1 .. Len(TermBodies) |-> [kind |-> "termBlock", body |-> TermBodies[i]]]
    \o << Section(400), [kind |-> "declaration"], [kind |-> "important"],
          [kind |-> "reserve"], Section(600), [kind |-> "signatures"],
          [kind |-> "office"] >>

\* the argument of the ensureSpace call the block begins with, if it has one
EnsureOf(b) ==
    CASE b.kind = "section" -> Some(2200)
      [] b.kind = "field" -> Some(FieldHeight(b.value.length))
      [] b.kind = "termBlock" -> Some(TermHeight(b.body.length))
      [] b.kind = "declaration" -> Some(5200)
      [] b.kind = "important" -> Some(2200)
      [] b.kind = "reserve" -> Some(11000)
      [] b.kind = "office" -> Some(1600)
      [] OTHER -> None

\* what the handler draws for block b once its ensureSpace call is over
Draw(d, s, b) ==
    CASE b.kind = "idPanel" -> [d EXCEPT !.cy = @ + 3200]
      [] b.kind = "photo" -> [d EXCEPT !.cy = @ + (IF s.photo THEN 10800 ELSE 600)]
      [] b.kind = "section" -> [d EXCEPT !.cy = @ + 2400 + b.extra]
      [] b.kind = "field" ->
            [text(d, d.cy + 400, b.value.lines, LineHeightValue)
                EXCEPT !.cy = @ + FieldHeight(b.value.length)]
      [] b.kind = "termBlock" ->
            LET body == text(d, d.cy + 1600, b.body.lines, LineHeightTerm)
            IN [body EXCEPT !.cy = body.y + 500]
      [] b.kind = "declaration" ->
            LET body == text(d, d.cy, DeclarationLines, LineHeightDeclaration)
            IN [body EXCEPT !.cy = body.y + 800]
      [] b.kind = "important" -> [d EXCEPT !.cy = @ + 2600]
      [] b.kind = "reserve" -> d
      [] b.kind = "signatures" -> [d EXCEPT !.cy = @ + 10000]
      [] b.kind = "office" -> [d EXCEPT !.cy = @ + 1400]

\* the renderer stands before block k of the agreement of s
AtBlock(d, s, k) ==
    [pc |-> IF EnsureOf(Blocks(s)[k]) = None THEN "draw" ELSE "ensureSpace",
     block |-> k, s |-> s, d |-> d]

\* the SELECT of the row, the new document and the header and footer of its
\* first page.  photo and address are the row's photo_data (an image or
\* not) and address, columns that no other handler of the model reads.
PdfSelect(id, photo, address) ==
    /\ pdf.pc \in {"none", "end"}
    /\ UNCHANGED <<dbVars, inflight, foreignKeys>>
    /\ IF id \notin DOMAIN shareholders
       THEN /\ res' = Decline("pdf", 404, "Shareholder not found")
            /\ pdf' = NoDoc
       ELSE LET s == [photo |-> photo, address |-> address,
                      approved_at |-> shareholders[id].approved_at]
                d == [cy |-> BODY_TOP, pageNum |-> 1, y |-> 0,
                      pages |-> << BlankPage >>]
            IN /\ pdf' = AtBlock(drawFooter(drawHeader(d)), s, 1)
               /\ res' = res

\* the ensureSpace call a block begins with
PdfEnsureSpace ==
    /\ pdf.pc = "ensureSpace"
    /\ UNCHANGED <<dbVars, inflight, foreignKeys, res>>
    /\ pdf' = [pdf EXCEPT !.pc = "draw",
                          !.d = ensureSpace(@, EnsureOf(Blocks(pdf.s)[pdf.block])[1])]

\* the drawing of a block and the move of the cursor past it
PdfDraw ==
    /\ pdf.pc = "draw"
    /\ UNCHANGED <<dbVars, inflight, foreignKeys, res>>
    /\ LET d == Draw(pdf.d, pdf.s, Blocks(pdf.s)[pdf.block])
       IN pdf' = IF pdf.block = Len(Blocks(pdf.s))
                 THEN [pdf EXCEPT !.pc = "finish", !.d = d]
                 ELSE AtBlock(d, pdf.s, pdf.block + 1)

\* the last drawFooter and doc.end(): the document is sent
PdfEnd ==
    /\ pdf.pc = "finish"
    /\ UNCHANGED <<dbVars, inflight, foreignKeys>>
    /\ pdf' = [pdf EXCEPT !.pc = "end", !.d = drawFooter(@)]
    /\ res' = [op |-> "pdf", code |-> 200, success |-> TRUE,
               pages |-> Len(pdf.d.pages)]

(***************************************************************************)
(* Request values the specifications draw from.  Amounts are in mills.     *)
(***************************************************************************)
ShIds == 1 .. MaxShId
Months == {"", "2024-01"}
\* -0.01, a missing amount, 100.00
Amounts == {-Cent, 0, 100 * Unit}
GstRates == {18}
Statuses == {"PENDING", "APPROVED", "REJECTED"}
Identities == {[username |-> "alice", email |-> "alice@x"],
               [username |-> "bob", email |-> "bob@x"]}
RegShares == {0, 3}

\* the step stays within the bounds of the model: no id beyond the largest
Bounded ==
    /\ nextShId' <= MaxShId + 1
    /\ nextDivId' <= MaxDivId + 1
    /\ nextStageId' <= MaxStageId + 1

(***************************************************************************)
(* SpecPay: the shareholder lifecycle and the two payout operations, one   *)
(* request at a time.                                                      *)
(***************************************************************************)
PayRegister ==
    \E who \in Identities, n \in RegShares :
        Register(who.email, "", n, who.username, "pw") /\ Bounded
PaySetStatus == \E id \in ShIds, st \in Statuses : SetStatus(id, st)
PayDelete == \E id \in ShIds : DeleteAgreement(id)
PayPayOne ==
    \E id \in 0 .. MaxShId, m \in Months, a \in Amounts, g \in GstRates :
        PayOne(id, m, a, g, "") /\ Bounded
PayPayAll ==
    \E m \in Months, a \in Amounts, g \in GstRates, f \in 0 .. MaxShId :
        PayAll(m, a, g, "", f) /\ Bounded

NextPay == PayRegister \/ PaySetStatus \/ PayDelete \/ PayPayOne \/ PayPayAll
SpecPay == Init /\ [][NextPay]_vars

(***************************************************************************)
(* SpecAlloc: the arithmetic of the two payouts.  The server starts on a   *)
(* database that already holds up to MaxHolders registered investors       *)
(* (registered at the seeded running stage, then approved or left          *)
(* pending; the admin may have been rejected by a status update), and one  *)
(* payout is made on the empty ledger.                                     *)
(***************************************************************************)
MaxHolders == 3
AllocNames == <<"admin", "alice", "bob", "carol", "dave", "erin">>
AllocEmails == <<"admin@quickride.com", "alice@x", "bob@x", "carol@x", "dave@x", "erin@x">>
AllocShares == {1, 3, 6}
\* 0.005, 0.01, 100.00, 100.005
AllocAmounts == {5, Cent, 100 * Unit, 100 * Unit + 5}
AllocGstRates == {-5, 0, 18}

HolderRow(id, numShares, status) ==
    [username |-> AllocNames[id], email |-> AllocEmails[id],
     business_role |-> "DRIVER", num_shares |-> numShares,
     password_hash |-> Hash("pw"),
     total_investment |-> numShares * SeedStages[2].price_per_share,
     price_per_share |-> SeedStages[2].price_per_share, stage |-> SeedStages[2].stage,
     status |-> status,
     approved_at |-> IF status = "APPROVED" THEN NOW ELSE NULL]

InitAlloc ==
    \E k \in 0 .. MaxHolders :
      \E shares \in [2 .. k + 1 -> AllocShares],
         sts \in [2 .. k + 1 -> {"APPROVED", "PENDING"}],
         adminStatus \in {"APPROVED", "REJECTED"} :
        /\ shareholders =
               [i \in 1 .. k + 1 |->
                   IF i = 1 THEN [AdminRow EXCEPT !.status = adminStatus]
                   ELSE HolderRow(i, shares[i], sts[i])]
        /\ nextShId = k + 2
        /\ dividends = <<>>
        /\ nextDivId = 1
        /\ stages = SeedStages
        /\ nextStageId = 4
        /\ res = IF adminStatus = "APPROVED"
                 THEN [op |-> "listen"]
                 ELSE [op |-> "setStatus", code |-> 200, success |-> TRUE,
                       message |-> "Status updated"]
        /\ inflight = [c \in Clients |-> Idle]
        /\ foreignKeys = FALSE
        /\ pdf = NoDoc

AllocPayOne ==
    \E id \in DOMAIN shareholders, a \in AllocAmounts, g \in AllocGstRates :
        nextDivId = 1 /\ PayOne(id, "2024-01", a, g, "")
AllocPayAll ==
    \E a \in AllocAmounts, g \in AllocGstRates :
        nextDivId = 1 /\ PayAll("2024-01", a, g, "", 0)

NextAlloc == AllocPayOne \/ AllocPayAll
SpecAlloc == InitAlloc /\ [][NextAlloc]_vars

(***************************************************************************)
(* SpecStages: the stage registry under stage updates and creations.       *)
(***************************************************************************)
StageStatusArgs == {None, Some("RUNNING"), Some("SOLD_OUT")}
StagePriceArgs == {None, Some(1500)}

StagesUpdate ==
    \E id \in 1 .. MaxStageId, st \in StageStatusArgs, pr \in StagePriceArgs :
        UpdateStage(id, st, pr, None, None)
StagesCreate ==
    \E n \in {0, 2, 4}, st \in {"", "RUNNING"} :
        CreateStage(n, "Stage 4", 1700, 0, 0, st, 0) /\ Bounded
StagesDashboard == \E id \in ShIds : Dashboard(id)

NextStages == StagesUpdate \/ StagesCreate \/ StagesDashboard
SpecStages == Init /\ [][NextStages]_vars

(***************************************************************************)
(* SpecStageEdit: stage updates over all four updatable fields.            *)
(***************************************************************************)
EditStatusArgs == {None, Some("RUNNING")}
EditNameArgs == {None, Some("Renamed")}
EditSharesArgs == {None, Some(50)}

\* the ids of the stages there are, and one id that has no stage
EditIds == DOMAIN stages \cup {nextStageId}

EditUpdate ==
    \E id \in EditIds, st \in EditStatusArgs, pr \in StagePriceArgs,
       nm \in EditNameArgs, sa \in EditSharesArgs :
        UpdateStage(id, st, pr, nm, sa)

SpecStageEdit == Init /\ [][EditUpdate]_vars

(***************************************************************************)
(* SpecReg: registrations while the stage registry changes.                *)
(***************************************************************************)
\* a negative holding, a missing numShares, 100 shares
RegShareArgs == {-2, 0, 100}
\* stage 2 repriced, stage 2 sold out, stage 3 opened
RegStageArgs == {<<2, None, Some(1500)>>, <<2, Some("SOLD_OUT"), None>>,
                 <<3, Some("RUNNING"), None>>}

RegRegister ==
    \E who \in Identities, n \in RegShareArgs :
        Register(who.email, "", n, who.username, "pw") /\ Bounded
RegUpdateStage ==
    \E a \in RegStageArgs : UpdateStage(a[1], a[2], a[3], None, None)

NextReg == RegRegister \/ RegUpdateStage
SpecReg == Init /\ [][NextReg]_vars

(***************************************************************************)
(* SpecHold: a holding, once registered, under everything that may happen  *)
(* to its shareholder and to the stage registry afterwards.                *)
(***************************************************************************)
HoldRegister ==
    \E who \in Identities : Register(who.email, "", 100, who.username, "pw") /\ Bounded
HoldUpdateStage ==
    \E a \in {<<2, None, Some(1500)>>, <<2, Some("SOLD_OUT"), None>>} :
        UpdateStage(a[1], a[2], a[3], None, None)
HoldCreateStage == CreateStage(4, "Stage 4", 1700, 0, 0, "", 0) /\ Bounded
HoldSetStatus == \E id \in ShIds, st \in {"APPROVED", "REJECTED"} : SetStatus(id, st)
HoldCredentials == UpdateCredentials(2, "carol", "")
HoldPayOne == PayOne(2, "2024-01", 100 * Unit, 18, "") /\ Bounded

NextHold ==
    \/ HoldRegister \/ HoldUpdateStage \/ HoldCreateStage
    \/ HoldSetStatus \/ HoldCredentials \/ HoldPayOne
SpecHold == Init /\ [][NextHold]_vars

(***************************************************************************)
(* SpecAuth: accounts, their status and role, and who may log in.          *)
(***************************************************************************)
\* the three lifecycle values, a value outside them, and a null status
AuthStatusArgs == Statuses \cup {"ARCHIVED", NULL}
AuthRoles == {"", "ADMIN"}
LoginNames == {"", "admin", "alice", "bob"}
LoginPasswords == {"", "pw", "pw2", "Qc@242526"}

AuthRegister ==
    \E who \in Identities, role \in AuthRoles :
        Register(who.email, role, 3, who.username, "pw") /\ Bounded
AuthSetStatus == \E id \in ShIds, st \in AuthStatusArgs : SetStatus(id, st)
AuthDelete == \E id \in ShIds : DeleteAgreement(id)
AuthCredentials == UpdateCredentials(2, "", "pw2")
AuthPayOne == PayOne(1, "2024-01", 100 * Unit, 18, "") /\ Bounded
AuthLogin == \E u \in LoginNames, p \in LoginPasswords : Login(u, p)

NextAuth ==
    \/ AuthRegister \/ AuthSetStatus \/ AuthDelete
    \/ AuthCredentials \/ AuthPayOne \/ AuthLogin
SpecAuth == Init /\ [][NextAuth]_vars

(***************************************************************************)
(* SpecCred: registrations and credential updates, one request at a time.  *)
(***************************************************************************)
CredNames == {"", "admin", "alice", "bob", "carol"}
CredPasswords == {"", "pw2"}
CredIds == DOMAIN shareholders \cup {nextShId}

CredRegister ==
    \E who \in Identities, role \in {"", "ADMIN"} :
        Register(who.email, role, 3, who.username, "pw") /\ Bounded
CredUpdate ==
    \E id \in CredIds, u \in CredNames, p \in CredPasswords :
        UpdateCredentials(id, u, p)
CredDelete == \E id \in DOMAIN shareholders : DeleteAgreement(id)

NextCred == CredRegister \/ CredUpdate \/ CredDelete
SpecCred == Init /\ [][NextCred]_vars

(***************************************************************************)
(* SpecGate: public registrations with any businessRole, approvals, and    *)
(* logins.  The only status update is the approval, so that a row's status *)
(* is APPROVED exactly when a status update has set it so.                 *)
(***************************************************************************)
GateRegister ==
    \E who \in Identities, role \in {"", "INVESTOR", "ADMIN"} :
        Register(who.email, role, 3, who.username, "pw") /\ Bounded
GateApprove == \E id \in ShIds : SetStatus(id, "APPROVED")
GateCredentials == \E id \in ShIds : UpdateCredentials(id, "", "pw2")
GateDelete == \E id \in ShIds : DeleteAgreement(id)
GateLogin == \E u \in LoginNames, p \in LoginPasswords : Login(u, p)

NextGate == GateRegister \/ GateApprove \/ GateCredentials \/ GateDelete \/ GateLogin
SpecGate == Init /\ [][NextGate]_vars

(***************************************************************************)
(* SpecRaceReg: registrations and credential updates of two clients,       *)
(* statement by statement, so that a request's check and its write are     *)
(* apart and another request's statements fall between them.  The          *)
(* specification admits one shareholder more than the others do, so that   *)
(* two registered rows meet.                                               *)
(***************************************************************************)
RaceBounded == nextShId' <= MaxShId + 2

RaceRegSelectUsername ==
    \E c \in Clients, u \in {"alice", "bob"}, e \in {"alice@x", "bob@x"} :
        RegisterSelectUsername(c, e, "", 3, u, "pw")
RaceRegSelectEmail == \E c \in Clients : RegisterSelectEmail(c)
RaceRegGetRunningStage == \E c \in Clients : RegisterGetRunningStage(c)
RaceRegInsert == \E c \in Clients : RegisterInsert(c) /\ RaceBounded
RaceCredSelect ==
    \E c \in Clients, id \in CredIds, u \in {"", "admin", "alice", "bob"}, p \in {"", "pw2"} :
        CredentialsSelect(c, id, u, p)
RaceCredSelectOther == \E c \in Clients : CredentialsSelectOther(c)
RaceCredUpdate == \E c \in Clients : CredentialsUpdate(c)

NextRaceReg ==
    \/ RaceRegSelectUsername \/ RaceRegSelectEmail \/ RaceRegGetRunningStage
    \/ RaceRegInsert \/ RaceCredSelect \/ RaceCredSelectOther \/ RaceCredUpdate
SpecRaceReg == Init /\ [][NextRaceReg]_vars

(***************************************************************************)
(* SpecRacePay: payouts, deletions and status updates of two clients,      *)
(* statement by statement.  Version 1 of the server opens its connection   *)
(* without PRAGMA foreign_keys; whether REFERENCES is enforced is then the *)
(* default of the store it connects to, and the specification starts with  *)
(* either.                                                                 *)
(***************************************************************************)
InitRacePay ==
    /\ shareholders = (1 :> AdminRow)
    /\ nextShId = 2
    /\ dividends = <<>>
    /\ nextDivId = 1
    /\ stages = SeedStages
    /\ nextStageId = 4
    /\ res = [op |-> "listen"]
    /\ inflight = [c \in Clients |-> Idle]
    /\ foreignKeys \in BOOLEAN
    /\ pdf = NoDoc

RacePayRegister == Register("alice@x", "", 3, "alice", "pw") /\ Bounded
RacePaySetStatus ==
    \E id \in ShIds, st \in {"APPROVED", "REJECTED"} : SetStatus(id, st)
RacePayOneSelect ==
    \E c \in Clients, id \in ShIds : PayOneSelect(c, id, "2024-01", 100 * Unit, 18, "")
RacePayOneInsert == \E c \in Clients : PayOneInsert(c) /\ Bounded
RacePayAllSelect == \E c \in Clients : PayAllSelect(c, "2024-01", 100 * Unit, 18, "")
RacePayAllInsert == \E c \in Clients : PayAllInsert(c) /\ Bounded
RaceDeleteSelect == \E c \in Clients, id \in ShIds : DeleteSelect(c, id)
RaceDeleteDividends == \E c \in Clients : DeleteDividends(c)
RaceDeleteShareholder == \E c \in Clients : DeleteShareholder(c)

NextRacePay ==
    \/ RacePayRegister \/ RacePaySetStatus
    \/ RacePayOneSelect \/ RacePayOneInsert \/ RacePayAllSelect \/ RacePayAllInsert
    \/ RaceDeleteSelect \/ RaceDeleteDividends \/ RaceDeleteShareholder
SpecRacePay == InitRacePay /\ [][NextRacePay]_vars

(***************************************************************************)
(* SpecPdf: agreements rendered for the rows of the store and for an id    *)
(* that has none, one request at a time.  An address is given by its       *)
(* length and by the number of lines the library sets it in at 8pt         *)
(* Helvetica and width CW - 151: 20 characters in one line, 300 characters *)
(* of plain words in four lines, and 300 characters with a line break      *)
(* after each in 150 lines.                                                *)
(***************************************************************************)
Addresses ==
    {[length |-> 20, lines |-> 1], [length |-> 300, lines |-> 4],
     [length |-> 300, lines |-> 150]}

PdfRegister == pdf.pc \in {"none", "end"} /\ Register("alice@x", "", 3, "alice", "pw") /\ Bounded
PdfSetStatus ==
    /\ pdf.pc \in {"none", "end"}
    /\ \E id \in DOMAIN shareholders, st \in {"APPROVED", "REJECTED"} : SetStatus(id, st)
PdfRender ==
    \E id \in CredIds, photo \in BOOLEAN, address \in Addresses :
        PdfSelect(id, photo, address)

NextPdf == PdfRegister \/ PdfSetStatus \/ PdfRender \/ PdfEnsureSpace \/ PdfDraw \/ PdfEnd
SpecPdf == Init /\ [][NextPdf]_vars

(***************************************************************************)
(* Spec: every handler that writes to the store, one request at a time.    *)
(***************************************************************************)
SpecRegister == Register("alice@x", "", 3, "alice", "pw") /\ Bounded
SpecSetStatus == \E id \in ShIds, st \in {"APPROVED", "REJECTED"} : SetStatus(id, st)
SpecDelete == \E id \in ShIds : DeleteAgreement(id)
SpecPayOne == \E id \in ShIds : PayOne(id, "2024-01", 100 * Unit, 18, "") /\ Bounded
SpecPayAll == \E f \in 0 .. MaxShId : PayAll("2024-01", 100 * Unit, 18, "", f) /\ Bounded
SpecCredentials ==
    \E id \in ShIds, u \in {"", "carol"} : UpdateCredentials(id, u, "pw2")
SpecUpdateStage == UpdateStage(3, Some("RUNNING"), None, None, None)
SpecCreateStage == CreateStage(4, "Stage 4", 1700, 0, 0, "", 0) /\ Bounded

Next ==
    \/ SpecRegister \/ SpecSetStatus \/ SpecDelete \/ SpecPayOne \/ SpecPayAll
    \/ SpecCredentials \/ SpecUpdateStage \/ SpecCreateStage
Spec == Init /\ [][Next]_vars

(***************************************************************************)
(* Properties.                                                             *)
(***************************************************************************)
\* r (mills) is the whole number of cents nearest to num / den mills (den > 0),
\* a tie going to the cent above
IsNearestCent(r, num, den) ==
    /\ r % Cent = 0
    /\ 2 * den * r <= 2 * num + Cent * den
    /\ 2 * num + Cent * den < 2 * den * (r + Cent)

\* the rows a step has added to the ledger
NewDividends == DOMAIN dividends' \ DOMAIN dividends

RECURSIVE SumGross(_, _)
SumGross(div, S) ==
    IF S = {} THEN 0
    ELSE LET d == CHOOSE x \in S : TRUE
         IN div[d].gross_amount + SumGross(div, S \ {d})

\* C1: a single payout that passes its preconditions records one PAID row
\* (shareholder, month, gross, gst, net) and returns net, gross and gstAmount
\* with gstAmount = round2(gross * gst / 100), net = gross - gstAmount and
\* net <= gross.
C1_SinglePayoutNet ==
    (res.op = "payOne" /\ res.success) =>
        LET d == dividends[nextDivId - 1]
        IN /\ d.gross_amount = res.gross
           /\ d.amount = res.net
           /\ d.status = "PAID"
           /\ d.gst_rate >= 0
           /\ IsNearestCent(res.gstAmt, res.gross * d.gst_rate, 100)
           /\ res.net = res.gross - res.gstAmt
           /\ res.net <= res.gross

\* C2: a single payout whose precondition fails (shareholderId missing, month
\* empty, amount missing or <= 0, target absent or not APPROVED) is answered
\* {success:false, message} with a normal status, and the store is unchanged:
\* a single-payout step is such a decline unless the request it answers meets
\* every precondition.
C2_SinglePayoutDeclined ==
    [][res'.op = "payOne" =>
          \/ ( /\ res'.code = 200
               /\ res'.success = FALSE
               /\ res'.message # ""
               /\ UNCHANGED dbVars )
          \/ \A id \in 0 .. MaxShId, m \in Months, a \in Amounts, g \in GstRates :
                PayOne(id, m, a, g, "") =>
                    ( /\ id # 0 /\ m # "" /\ a > 0
                      /\ id \in DOMAIN shareholders
                      /\ shareholders[id].status = "APPROVED" )]_vars

C2_Witness ==
    /\ res.op = "payOne"
    /\ res.success = FALSE
    /\ res.message = "Shareholder not found or not approved"
    /\ \E i \in DOMAIN shareholders : shareholders[i].status = "PENDING"
    /\ dividends = <<>>

\* C3: a successful bulk payout records, for each approved shareholder i,
\* gross_i = round2(total * numShares_i / totalShares) with totalShares the sum
\* over the approved shareholders, gst = max(0, gstRate),
\* gstAmt_i = round2(gross_i * gst / 100) and net_i = round2(gross_i - gstAmt_i).
C3_BulkAllocation ==
    [][\A a \in AllocAmounts, g \in AllocGstRates :
          (res'.op = "payAll" /\ res'.success /\ PayAll("2024-01", a, g, "", 0)) =>
              LET approved == {i \in DOMAIN shareholders : shareholders[i].status = "APPROVED"}
                  T == SumShares(shareholders, approved)
                  gst == IF g > 0 THEN g ELSE 0
              IN /\ T # 0
                 /\ \A i \in approved :
                      \E d \in NewDividends :
                        LET r == dividends'[d]
                            n == shareholders[i].num_shares
                            gstAmt == r.gross_amount - r.amount
                        IN /\ r.shareholder_id = i
                           /\ r.gst_rate = gst
                           /\ IF T > 0 THEN IsNearestCent(r.gross_amount, a * n, T)
                                       ELSE IsNearestCent(r.gross_amount, -(a * n), -T)
                           /\ IsNearestCent(gstAmt, r.gross_amount * gst, 100)
                           /\ IsNearestCent(r.amount, r.gross_amount - gstAmt, 1)]_vars

C3_Witness ==
    /\ res.op = "payAll"
    /\ res.success
    /\ \E d, e \in DOMAIN dividends :
          /\ dividends[d].gross_amount = 14290
          /\ dividends[e].gross_amount = 85710
          /\ dividends[d].gst_rate = 18

\* C4: a bulk payout that reports success has added exactly one row for every
\* APPROVED shareholder and none for any other, all with one month, and the
\* count it returns is the number of approved shareholders.
C4_BulkOnePerApproved ==
    [][(res'.op = "payAll" /\ res'.success) =>
          LET approved == {i \in DOMAIN shareholders : shareholders[i].status = "APPROVED"}
          IN /\ \A i \in approved :
                  Cardinality({d \in NewDividends : dividends'[d].shareholder_id = i}) = 1
             /\ \A d \in NewDividends : dividends'[d].shareholder_id \in approved
             /\ \A d, e \in NewDividends : dividends'[d].month = dividends'[e].month
             /\ res'.count = Cardinality(approved)]_vars

C4_Witness ==
    /\ res.op = "payAll"
    /\ res.success
    /\ res.count = 2
    /\ Cardinality(DOMAIN dividends) = 2

\* C5: after a successful bulk payout of totalGrossAmount the recorded gross_i
\* sum to within 0.01 * count of totalGrossAmount.
C5_BulkDriftBounded ==
    [][\A a \in AllocAmounts, g \in AllocGstRates :
          (res'.op = "payAll" /\ res'.success /\ PayAll("2024-01", a, g, "", 0)) =>
              Abs(SumGross(dividends', NewDividends) - a) <= Cent * res'.count]_vars

C5_Witness ==
    /\ res.op = "payAll"
    /\ res.success
    /\ res.count >= 3
    /\ SumGross(dividends, DOMAIN dividends) = 100 * Unit - Cent

\* C6: the bulk payout leaves the rounding remainder alone: approved holdings
\* 1/3/6 and 100.00 at gstRate 0 record 10.00, 30.00 and 60.00 (sum 100.00),
\* and approved holdings 1/1/1 record 33.33 each (sum 99.99, not 100.00).
C6_RemainderNotRedistributed ==
    [][(res'.op = "payAll" /\ res'.success /\ PayAll("2024-01", 100 * Unit, 0, "", 0)) =>
          LET holders == {i \in DOMAIN shareholders :
                             /\ shareholders[i].status = "APPROVED"
                             /\ shareholders[i].num_shares # 0}
              held(n) == {i \in holders : shareholders[i].num_shares = n}
              grossOf(i) == {dividends'[d].gross_amount :
                               d \in {x \in NewDividends : dividends'[x].shareholder_id = i}}
          IN /\ ( /\ Cardinality(holders) = 3
                  /\ Cardinality(held(1)) = 1
                  /\ Cardinality(held(3)) = 1
                  /\ Cardinality(held(6)) = 1 )
                => ( /\ \A i \in held(1) : grossOf(i) = {10 * Unit}
                     /\ \A i \in held(3) : grossOf(i) = {30 * Unit}
                     /\ \A i \in held(6) : grossOf(i) = {60 * Unit}
                     /\ SumGross(dividends', NewDividends) = 100 * Unit )
             /\ (Cardinality(holders) = 3 /\ Cardinality(held(1)) = 3)
                => ( /\ \A i \in holders : grossOf(i) = {33330}
                     /\ SumGross(dividends', NewDividends) = 99990
                     /\ SumGross(dividends', NewDividends) # 100 * Unit )]_vars

C6_Witness ==
    /\ res.op = "payAll"
    /\ res.success
    /\ Cardinality({d \in DOMAIN dividends : dividends[d].gross_amount = 33330
                                              /\ dividends[d].gst_rate = 0}) = 3

\* C7: a bulk payout with an empty month, an amount missing or <= 0, or no
\* APPROVED shareholder is answered {success:false, message} with a normal
\* status; no row is added and the store is unchanged: a bulk-payout step is
\* such a decline unless the request it answers meets every precondition.
C7_BulkPayoutDeclined ==
    [][res'.op = "payAll" =>
          \/ ( /\ res'.code = 200
               /\ res'.success = FALSE
               /\ res'.message # ""
               /\ UNCHANGED dbVars )
          \/ \A m \in Months, a \in Amounts, g \in GstRates, f \in 0 .. MaxShId :
                PayAll(m, a, g, "", f) =>
                    ( /\ m # "" /\ a > 0
                      /\ \E i \in DOMAIN shareholders :
                             shareholders[i].status = "APPROVED" )]_vars

C7_Witness ==
    /\ res.op = "payAll"
    /\ res.success = FALSE
    /\ res.message = "No approved shareholders found"
    /\ DOMAIN shareholders # {}
    /\ \A i \in DOMAIN shareholders : shareholders[i].status # "APPROVED"

\* C8: a bulk payout is all-or-nothing: when the request has ended, either
\* every shareholder of the batch has its row or none has, also when an insert
\* of the batch fails.
C8_BulkAllOrNothing ==
    [][res'.op = "payAll" =>
          LET batch == {i \in DOMAIN shareholders : shareholders[i].status = "APPROVED"}
              paid == {dividends'[d].shareholder_id : d \in NewDividends}
          IN paid = {} \/ paid = batch]_vars

\* C9: the fields of an existing dividend row never change, and a row goes
\* away only in the deletion of the shareholder it belongs to.
C9_DividendsImmutable ==
    [][\A d \in DOMAIN dividends :
          IF d \in DOMAIN dividends'
          THEN dividends'[d] = dividends[d]
          ELSE /\ res'.op = "deleteAgreement"
               /\ dividends[d].shareholder_id \in DOMAIN shareholders
               /\ dividends[d].shareholder_id \notin DOMAIN shareholders']_vars

C9_Witness ==
    /\ res.op = "deleteAgreement"
    /\ res.success
    /\ Cardinality(DOMAIN dividends) = 1
    /\ nextDivId = 3

\* C10: at most one investment stage has status RUNNING.
C10_AtMostOneRunning == Cardinality(RunningStageIds(stages)) <= 1

\* C11: getRunningStage, as the dashboard calls it, returns a stage whose status
\* is RUNNING when there is one and otherwise the fixed fallback (stage 2, price
\* 1200, name 'Current Price'); the call leaves the store alone, and a second
\* call right after the first returns the same value.
C11_GetRunningStage ==
    [][(res'.op = "dashboard" /\ res'.success) =>
          LET running == {i \in DOMAIN stages : stages[i].status = "RUNNING"}
              cs == res'.currentStage
          IN /\ UNCHANGED dbVars
             /\ IF running # {}
                THEN \E i \in running : cs = stages[i]
                ELSE cs = [price_per_share |-> 1200, stage |-> 2, name |-> "Current Price"]
             /\ (res.op = "dashboard" /\ res.success) => cs = res.currentStage]_vars

C11_Witness ==
    /\ res.op = "dashboard"
    /\ res.success
    /\ \A i \in DOMAIN stages : stages[i].status # "RUNNING"
    /\ res.currentStage.name = "Current Price"
    /\ res.currentStage.price_per_share = 1200
    /\ stages[2].price_per_share = 1500

\* C12: a stage update changes exactly the supplied fields among status,
\* price_per_share, name and shares_available of the addressed stage; its stage
\* number and subscriber bounds, every other stage and the other tables stay as
\* they were; an update that supplies none of the four is answered 400, changes
\* nothing and is not a success.
C12_StageUpdateFrame ==
    [][\A id \in EditIds, st \in EditStatusArgs, pr \in StagePriceArgs,
          nm \in EditNameArgs, sa \in EditSharesArgs :
          UpdateStage(id, st, pr, nm, sa) =>
              IF st = None /\ pr = None /\ nm = None /\ sa = None
              THEN /\ res'.code = 400
                   /\ res'.success = FALSE
                   /\ UNCHANGED dbVars
              ELSE /\ DOMAIN stages' = DOMAIN stages
                   /\ \A i \in DOMAIN stages \ {id} : stages'[i] = stages[i]
                   /\ id \in DOMAIN stages =>
                         LET old == stages[id]
                             new == stages'[id]
                         IN /\ new.status = IF st = None THEN old.status ELSE st[1]
                            /\ new.price_per_share =
                                   IF pr = None THEN old.price_per_share ELSE pr[1]
                            /\ new.name = IF nm = None THEN old.name ELSE nm[1]
                            /\ new.shares_available =
                                   IF sa = None THEN old.shares_available ELSE sa[1]
                            /\ new.stage = old.stage
                            /\ new.min_subscribers = old.min_subscribers
                            /\ new.max_subscribers = old.max_subscribers
                   /\ UNCHANGED <<shareholders, nextShId, dividends, nextDivId, nextStageId>>]_vars

C12_Witness ==
    /\ res.op = "updateStage"
    /\ res.success
    /\ stages[2].name = "Renamed"
    /\ stages[2].shares_available = 50
    /\ stages[2].price_per_share = 1200
    /\ stages[2].status = "RUNNING"
    /\ stages[1] = SeedStages[1]
    /\ stages[3] = SeedStages[3]

\* C13: no two investment stages have the same stage number.
C13_StageNumbersUnique ==
    \A i, j \in DOMAIN stages : stages[i].stage = stages[j].stage => i = j

\* C14: a successful registration adds exactly one shareholder, PENDING with
\* approved_at null, holding the requested shares at the price and stage number
\* of the stage getRunningStage returns at that moment (the first RUNNING stage,
\* else price 1200 and stage 2), with total_investment = numShares * that price;
\* the shareholders already there are untouched.
C14_RegistrationRecord ==
    [][\A who \in Identities, n \in RegShareArgs :
          ( /\ res'.op = "register"
            /\ res'.success
            /\ Register(who.email, "", n, who.username, "pw") ) =>
              LET running == {i \in DOMAIN stages : stages[i].status = "RUNNING"}
                  first == CHOOSE i \in running : \A j \in running : i <= j
                  price == IF running = {} THEN 1200 ELSE stages[first].price_per_share
                  number == IF running = {} THEN 2 ELSE stages[first].stage
                  new == DOMAIN shareholders' \ DOMAIN shareholders
              IN /\ Cardinality(new) = 1
                 /\ \A i \in new :
                      /\ shareholders'[i].username = who.username
                      /\ shareholders'[i].email = who.email
                      /\ shareholders'[i].status = "PENDING"
                      /\ shareholders'[i].approved_at = NULL
                      /\ shareholders'[i].num_shares = n
                      /\ shareholders'[i].price_per_share = price
                      /\ shareholders'[i].total_investment = n * price
                      /\ shareholders'[i].stage = number
                 /\ \A i \in DOMAIN shareholders :
                      i \in DOMAIN shareholders' /\ shareholders'[i] = shareholders[i]]_vars

C14_Witness ==
    /\ res.op = "register"
    /\ res.success
    /\ \E i \in DOMAIN shareholders :
          /\ i = res.id
          /\ shareholders[i].num_shares = 100
          /\ shareholders[i].price_per_share = 1440
          /\ shareholders[i].total_investment = 144000
          /\ shareholders[i].stage = 3
          /\ shareholders[i].status = "PENDING"
    /\ stages[2].status = "SOLD_OUT"

\* C14, the example of the specification: 100 shares at 1200 give 120000
C14_WitnessExample ==
    /\ res.op = "register"
    /\ res.success
    /\ shareholders[res.id].num_shares = 100
    /\ shareholders[res.id].total_investment = 120000
    /\ shareholders[res.id].stage = 2

\* C16: every shareholder holds a non-negative number of shares.
C16_SharesNonNegative ==
    \A i \in DOMAIN shareholders : shareholders[i].num_shares >= 0

\* C15: every shareholder has total_investment = num_shares * price_per_share,
\* and no step changes the num_shares, price_per_share, total_investment or
\* stage of a shareholder that exists before and after it.
C15_HoldingFrozen ==
    [][/\ \A i \in DOMAIN shareholders :
             shareholders[i].total_investment =
                 shareholders[i].num_shares * shareholders[i].price_per_share
       /\ \A i \in DOMAIN shareholders' :
             shareholders'[i].total_investment =
                 shareholders'[i].num_shares * shareholders'[i].price_per_share
       /\ \A i \in DOMAIN shareholders \cap DOMAIN shareholders' :
             /\ shareholders'[i].num_shares = shareholders[i].num_shares
             /\ shareholders'[i].price_per_share = shareholders[i].price_per_share
             /\ shareholders'[i].total_investment = shareholders[i].total_investment
             /\ shareholders'[i].stage = shareholders[i].stage]_vars

\* a holding bought at 1200 is approved and paid after the stage went to 1500
C15_Witness ==
    /\ res.op = "payOne"
    /\ res.success
    /\ 2 \in DOMAIN shareholders
    /\ shareholders[2].status = "APPROVED"
    /\ shareholders[2].username = "carol"
    /\ shareholders[2].price_per_share = 1200
    /\ shareholders[2].total_investment = 120000
    /\ stages[2].price_per_share = 1500

\* C17: a status update of an existing shareholder succeeds whatever its
\* current and incoming status; afterwards its status is the incoming one and
\* approved_at is non-null exactly when the incoming status is APPROVED; no
\* other field, no other shareholder and no other table changes.
C17_StatusUpdate ==
    [][\A id \in ShIds, st \in AuthStatusArgs \ {NULL} :
          ( /\ res'.op = "setStatus"
            /\ id \in DOMAIN shareholders
            /\ SetStatus(id, st) ) =>
              /\ res'.success
              /\ DOMAIN shareholders' = DOMAIN shareholders
              /\ shareholders'[id].status = st
              /\ (shareholders'[id].approved_at # NULL) <=> (st = "APPROVED")
              /\ shareholders'[id] =
                     [shareholders[id] EXCEPT !.status = shareholders'[id].status,
                                              !.approved_at = shareholders'[id].approved_at]
              /\ \A i \in DOMAIN shareholders \ {id} : shareholders'[i] = shareholders[i]
              /\ UNCHANGED <<nextShId, dividends, nextDivId, stages, nextStageId>>]_vars

\* an approved investor has been sent back to PENDING
C17_Witness ==
    /\ res.op = "setStatus"
    /\ res.success
    /\ 2 \in DOMAIN shareholders
    /\ shareholders[2].status = "PENDING"
    /\ shareholders[2].approved_at = NULL
    /\ shareholders[2].password_hash = Hash("pw2")
    /\ shareholders[1].approved_at = NOW

\* C18: the status of every shareholder is one of PENDING, APPROVED, REJECTED.
C18_StatusEnum ==
    \A i \in DOMAIN shareholders : shareholders[i].status \in Statuses

\* C19: a login succeeds exactly when some shareholder has the username, the
\* password verifies against its hash, and it has role ADMIN or status
\* APPROVED; with the right credentials, no ADMIN role and a status other than
\* APPROVED the decline is the 'pending approval' one, not the 'invalid
\* credentials' one; a login leaves the store as it was.
C19_LoginGate ==
    [][\A u \in LoginNames, p \in LoginPasswords :
          (res'.op = "login" /\ Login(u, p)) =>
              LET known == {i \in DOMAIN shareholders :
                               /\ shareholders[i].username = u
                               /\ shareholders[i].password_hash = Hash(p)}
                  allowed == {i \in known : \/ shareholders[i].business_role = "ADMIN"
                                            \/ shareholders[i].status = "APPROVED"}
              IN /\ res'.success <=> allowed # {}
                 /\ (known # {} /\ allowed = {}) =>
                       /\ res'.message = "Account pending approval. Please wait for admin to approve."
                       /\ res'.message # "Invalid credentials."
                 /\ (known = {} /\ u # "" /\ p # "") => res'.message = "Invalid credentials."
                 /\ UNCHANGED dbVars]_vars

\* a registered investor, not yet approved, logs in with the right password
C19_Witness ==
    /\ res.op = "login"
    /\ res.success = FALSE
    /\ res.message = "Account pending approval. Please wait for admin to approve."
    /\ \E i \in DOMAIN shareholders :
          /\ shareholders[i].status = "PENDING"
          /\ shareholders[i].business_role = "DRIVER"

\* C20: the deletion of a shareholder with role ADMIN is answered 403 and
\* leaves every table unchanged, and the seeded admin (id 1) is there in every
\* state.
C20_AdminNotDeleted ==
    [][/\ \A id \in ShIds :
             ( /\ res'.op = "deleteAgreement"
               /\ id \in DOMAIN shareholders
               /\ shareholders[id].business_role = "ADMIN"
               /\ DeleteAgreement(id) ) =>
                 /\ res'.code = 403
                 /\ res'.success = FALSE
                 /\ UNCHANGED dbVars
       /\ 1 \in DOMAIN shareholders
       /\ 1 \in DOMAIN shareholders'
       /\ shareholders'[1].username = "admin"
       /\ shareholders'[1].business_role = "ADMIN"]_vars

\* a deletion was refused while the ledger holds a payout of the admin
C20_Witness ==
    /\ res.op = "deleteAgreement"
    /\ res.code = 403
    /\ \E d \in DOMAIN dividends : dividends[d].shareholder_id = 1
    /\ \E i \in DOMAIN shareholders : i # 1 /\ shareholders[i].business_role = "ADMIN"

\* C21: the deletion of a shareholder X that is there and is not an ADMIN
\* succeeds and leaves neither X's row nor any dividend record of X, and every
\* other shareholder row and dividend record as it was; the deletion of an id
\* that has no row is declined 404 and changes nothing.
C21_DeleteCascade ==
    [][res'.op = "deleteAgreement" =>
         \A id \in ShIds :
            DeleteAgreement(id) =>
              /\ id \notin DOMAIN shareholders =>
                    /\ res'.code = 404
                    /\ res'.success = FALSE
                    /\ res'.message = "Shareholder not found"
                    /\ UNCHANGED dbVars
              /\ (id \in DOMAIN shareholders /\ shareholders[id].business_role # "ADMIN") =>
                    /\ res'.success
                    /\ DOMAIN shareholders' = DOMAIN shareholders \ {id}
                    /\ \A i \in DOMAIN shareholders' : shareholders'[i] = shareholders[i]
                    /\ DOMAIN dividends' =
                          {d \in DOMAIN dividends : dividends[d].shareholder_id # id}
                    /\ \A d \in DOMAIN dividends' : dividends'[d] = dividends[d]
                    /\ UNCHANGED <<nextShId, nextDivId, stages, nextStageId>>]_vars

\* a shareholder with a dividend record was deleted while the ledger keeps a
\* record of another shareholder
C21_Witness ==
    /\ res.op = "deleteAgreement"
    /\ res.success
    /\ dividends # <<>>
    /\ Cardinality(DOMAIN dividends) < nextDivId - 1
    /\ \A d \in DOMAIN dividends : dividends[d].shareholder_id \in DOMAIN shareholders

\* C22: a credential update is answered without success and changes nothing
\* when neither a username nor a password is supplied, when the target has no
\* row, when the target is an ADMIN, or when the new username is held by a
\* different shareholder; every other update succeeds and changes only the
\* target's username, if one was supplied, and password hash, if a password
\* was supplied.
C22_CredentialUpdate ==
    [][res'.op = "updateCredentials" =>
         \A id \in CredIds, u \in CredNames, p \in CredPasswords :
            UpdateCredentials(id, u, p) =>
              IF \/ u = "" /\ p = ""
                 \/ id \notin DOMAIN shareholders
                 \/ shareholders[id].business_role = "ADMIN"
                 \/ u # "" /\ \E i \in DOMAIN shareholders \ {id} :
                                  shareholders[i].username = u
              THEN /\ res'.success = FALSE
                   /\ res'.code \in {400, 403, 404}
                   /\ UNCHANGED dbVars
              ELSE /\ res'.success
                   /\ DOMAIN shareholders' = DOMAIN shareholders
                   /\ \A i \in DOMAIN shareholders \ {id} :
                         shareholders'[i] = shareholders[i]
                   /\ shareholders'[id] =
                         [shareholders[id] EXCEPT
                            !.username = IF u = "" THEN @ ELSE u,
                            !.password_hash = IF p = "" THEN @ ELSE <<"bcrypt", p>>]
                   /\ UNCHANGED <<nextShId, dividends, nextDivId, stages,
                                  nextStageId>>]_vars

\* an update asking for a username held by another shareholder was declined,
\* while an earlier update had renamed a shareholder and kept its password hash
C22_Witness ==
    /\ res.op = "updateCredentials"
    /\ res.code = 400
    /\ res.message = "Username already taken"
    /\ \E i \in DOMAIN shareholders :
          /\ shareholders[i].username = "carol"
          /\ shareholders[i].password_hash = <<"bcrypt", "pw">>

\* C30: whenever a bulk payout passes its preconditions (a month, a positive
\* amount, at least one approved shareholder), the shares of the approved
\* shareholders add up to more than 0 and every record of the batch has a
\* gross amount from 0 to the amount paid out.
C30_BulkTotalSharesPositive ==
    [][res'.op = "payAll" =>
         \A m \in Months, a \in Amounts, g \in GstRates, f \in 0 .. MaxShId :
            ( /\ PayAll(m, a, g, "", f)
              /\ m # ""
              /\ a > 0
              /\ ApprovedIds(shareholders) # {} ) =>
                /\ SumShares(shareholders, ApprovedIds(shareholders)) > 0
                /\ \A d \in NewDividends :
                      /\ dividends'[d].gross_amount >= 0
                      /\ dividends'[d].gross_amount <= a]_vars

\* C27: a shareholder created by the public registration does not log in
\* successfully before a status update has set its status to APPROVED,
\* whatever businessRole the registration carried: a login answered with
\* success for a registered shareholder (any id but the seeded admin's, 1)
\* finds that shareholder's status APPROVED.
C27_NoLoginBeforeApproval ==
    (res.op = "login" /\ res.success /\ res.user.id # 1) =>
        shareholders[res.user.id].status = "APPROVED"

\* C23: in every reachable state no two shareholders have the same username
\* and no two have the same email, also when the statements of registrations
\* and credential updates interleave between a request's existence check and
\* its write.
C23_UsernamesEmailsUnique ==
    \A i, j \in DOMAIN shareholders :
        i # j => /\ shareholders[i].username # shareholders[j].username
                 /\ shareholders[i].email # shareholders[j].email

\* a request passed its existence check, another request's write came in
\* between, and the store refused the first one's write
C23_Witness ==
    /\ res.op \in {"register", "updateCredentials"}
    /\ res.code = 500
    /\ res.message \in {"Server error: UNIQUE constraint failed", "UNIQUE constraint failed"}
    /\ Cardinality(DOMAIN shareholders) >= 2
    /\ \E c \in Clients : inflight[c].pc \in {"register.insert", "credentials.update"}

\* C26: a duplicate username or email is never answered as a system fault
\* (status 500) but as a decline with a message, also when two registrations
\* race.
C26_DuplicateNeverFault ==
    res.op \in {"register", "updateCredentials"} => res.code # 500

\* C28: in every reachable state each dividend record names a shareholder
\* that has a row, also when the statements of a deletion fall between the
\* lookup and the insert of a single or bulk payout.
C28_DividendsReferenceShareholders ==
    \A d \in DOMAIN dividends : dividends[d].shareholder_id \in DOMAIN shareholders

\* C29: each dividend record is inserted for a shareholder whose status is
\* APPROVED at the moment of the insert, also when a status update falls
\* between the payout's check and its insert.
C29_InsertedForApproved ==
    [][\A d \in NewDividends :
          dividends'[d].shareholder_id \in DOMAIN shareholders =>
              shareholders[dividends'[d].shareholder_id].status = "APPROVED"]_vars

\* C24: an ensureSpace(n) call with cursor + n beyond the body bottom flushes
\* the footer of the page, starts a new page, adds one to the page counter,
\* draws header and footer on the new page and sets the cursor to the top of
\* the body; any other ensureSpace call leaves pages, counter and cursor as
\* they were.  The blocks are drawn one after the other in their fixed order,
\* each on the page the flow has reached.
C24_PaginationRule ==
    [][/\ pdf.pc = "ensureSpace" =>
            LET n == EnsureOf(Blocks(pdf.s)[pdf.block])[1]
                last == Len(pdf.d.pages)
            IN /\ pdf'.pc = "draw"
               /\ pdf'.block = pdf.block
               /\ IF pdf.d.cy + n > BODY_BOT
                  THEN /\ Len(pdf'.d.pages) = last + 1
                       /\ \A k \in 1 .. last - 1 : pdf'.d.pages[k] = pdf.d.pages[k]
                       /\ pdf.d.pageNum \in pdf'.d.pages[last].footers
                       /\ pdf'.d.pageNum = pdf.d.pageNum + 1
                       /\ pdf'.d.pages[last + 1] =
                              [header |-> TRUE, footers |-> {pdf.d.pageNum + 1}]
                       /\ pdf'.d.cy = BODY_TOP
                  ELSE /\ pdf'.d.pages = pdf.d.pages
                       /\ pdf'.d.pageNum = pdf.d.pageNum
                       /\ pdf'.d.cy = pdf.d.cy
       /\ pdf.pc = "draw" =>
            /\ pdf'.d.pageNum = pdf.d.pageNum
            /\ \/ pdf'.pc = "finish" /\ pdf.block = Len(Blocks(pdf.s))
               \/ /\ pdf'.pc \in {"ensureSpace", "draw"}
                  /\ pdf'.block = pdf.block + 1
                  /\ pdf'.s = pdf.s]_vars

\* an ensureSpace call before a term has just started the second page
C24_Witness ==
    /\ pdf.pc = "draw"
    /\ Blocks(pdf.s)[pdf.block].kind = "termBlock"
    /\ Len(pdf.d.pages) = 2
    /\ pdf.d.pageNum = 2
    /\ pdf.d.cy = BODY_TOP

\* C25: whatever the shareholder's data, every page of a rendered agreement
\* has the header and a footer, and every footer on its k-th page shows k.
C25_HeaderFooterEveryPage ==
    pdf.pc = "end" =>
        \A k \in 1 .. Len(pdf.d.pages) :
            /\ pdf.d.pages[k].header
            /\ pdf.d.pages[k].footers = {k}

====
